---------------------------- MODULE Spec2Model ----------------------------
(***************************************************************************)
(* A model of the earnings-volatility analysis pipeline                    *)
(* (nvda_earnings_vol): the scoring and ranking engine, the risk           *)
(* classifier, the strategy gate registry, the event-variance extractor,   *)
(* the pricing kernel, the payoff engine, the regime classifier with the   *)
(* alignment scores, the stages of a run of main(), the move simulator,    *)
(* the construction of the strategy pool and the batch downloader          *)
(* (scripts/download_batch.py).                                            *)
(*                                                                         *)
(* Results of log, exp, sqrt and the normal distribution functions, and    *)
(* random draws, are kept as symbolic terms (tagged tuples).               *)
(*                                                                         *)
(* Floating-point quantities are modelled as exact rationals <<n, d>>      *)
(* (d > 0, lowest terms) or, where every value of a computation shares one *)
(* unit, as integers in that unit; the unit is stated at each definition.  *)
(***************************************************************************)
EXTENDS Integers, Sequences, FiniteSets, TLC

VARIABLES
    pc,           \* which component is running and where it stands
    results,      \* main(): the list of metric records handed to score_strategies
    ranked,       \* the list score_strategies returned
    cm_call,      \* the last compute_metrics call: its override and its outcome
    strategy,     \* the Strategy handed to _is_undefined_risk
    risk_out,     \* what _is_undefined_risk returned for it
    snapshot,     \* the market snapshot handed to the gates
    gate_out,     \* name -> what should_build_strategy returned or raised
    registry,     \* state of the registry module: unloaded / loaded / AssertionError
    ev_in,        \* inputs of event_variance
    ev_out,       \* the record event_variance returned
    k_in,         \* arguments of a pricing-kernel call
    k_out,        \* function name -> what that kernel function returned or raised
    pay_in,       \* arguments of strategy_pnl_vec / strategy_pnl
    pay_out,      \* what the two payoff functions returned or raised
    rg_in,        \* the snapshot and ranked strategies handed to the regime stage
    rg_out,       \* the dict classify_regime returned
    al_out,       \* what compute_all_alignments wrote per strategy
    sim_in,       \* arguments of the simulate_moves batches
    sim_out,      \* the arrays simulate_moves returned
    run_in,       \* run mode and dates of one main() run
    run_out,      \* how far that run got: stages entered, error raised
    bd_in,        \* chains, spot and snapshot handed to strategy construction
    bd_out,       \* what the builders returned or raised, and main()'s lists
    dl_in,        \* the tickers handed to download_batch and how each fares
    dl_out        \* the executor's futures and the results list of the batch

vars == <<pc, results, ranked, cm_call, strategy, risk_out, snapshot,
          gate_out, registry, ev_in, ev_out, k_in, k_out, pay_in, pay_out,
          rg_in, rg_out, al_out, sim_in, sim_out, run_in, run_out,
          bd_in, bd_out, dl_in, dl_out>>

NoneVal == "None"

\* an optional number: <<>> is Python's None, <<v>> the value v
NoneOpt == <<>>

Some(v) == <<v>>

(***************************************************************************)
(* Exact rational arithmetic.                                              *)
(***************************************************************************)
Abs(x) == IF x < 0 THEN -x ELSE x

Max2(a, b) == IF a >= b THEN a ELSE b

RECURSIVE GCD(_, _)
GCD(a, b) == IF b = 0 THEN a ELSE GCD(b, a % b)

\* the rational n/d in lowest terms with a positive denominator (d # 0)
Rat(n, d) ==
    LET g == GCD(Abs(n), Abs(d))
        s == IF d < 0 THEN -1 ELSE 1
    IN  <<(s * n) \div g, (s * d) \div g>>

RInt(i) == <<i, 1>>

\* sums and products cancel common factors before multiplying, so that
\* intermediate values stay within machine integers
RAdd(a, b) ==
    LET g == GCD(a[2], b[2])
    IN  Rat(a[1] * (b[2] \div g) + b[1] * (a[2] \div g), (a[2] \div g) * b[2])

RNeg(a) == <<-a[1], a[2]>>

RSub(a, b) == RAdd(a, RNeg(b))

RMul(a, b) ==
    LET g1 == GCD(Abs(a[1]), b[2])
        g2 == GCD(Abs(b[1]), a[2])
    IN  Rat((a[1] \div g1) * (b[1] \div g2), (a[2] \div g2) * (b[2] \div g1))

\* b # 0
RInv(b) == IF b[1] < 0 THEN <<-b[2], -b[1]>> ELSE <<b[2], b[1]>>

RDiv(a, b) == RMul(a, RInv(b))

RLt(a, b) == IF a[2] = b[2] THEN a[1] < b[1] ELSE RSub(a, b)[1] < 0

RLe(a, b) == IF a[2] = b[2] THEN a[1] <= b[1] ELSE RSub(a, b)[1] <= 0

RAbs(a) == <<Abs(a[1]), a[2]>>

RMax(a, b) == IF RLe(b, a) THEN a ELSE b

RMin(a, b) == IF RLe(a, b) THEN a ELSE b

\* floor of a rational
RFloor(a) == a[1] \div a[2]

RECURSIVE SeqSum(_)
SeqSum(s) == IF s = <<>> THEN 0 ELSE Head(s) + SeqSum(Tail(s))

RECURSIVE RSeqMin(_)
RSeqMin(s) ==
    IF Len(s) = 1 THEN s[1] ELSE RMin(s[1], RSeqMin(Tail(s)))

RECURSIVE RSeqMax(_)
RSeqMax(s) ==
    IF Len(s) = 1 THEN s[1] ELSE RMax(s[1], RSeqMax(Tail(s)))


(***************************************************************************)
(* Strategies (strategies/structures.py).  A leg is a record               *)
(* [option_type, strike, qty, side, expiry]; a strategy is a name and a    *)
(* tuple of legs.  Strikes are in dollars, expiries are "front" / "back".  *)
(***************************************************************************)
Leg(t, k, q, s, e) ==
    [option_type |-> t, strike |-> k, qty |-> q, side |-> s, expiry |-> e]

Strategy(n, l) == [name |-> n, legs |-> l]

(***************************************************************************)
(* _is_undefined_risk (strategies/scoring.py).                             *)
(***************************************************************************)
LegsOf(legs, t, s) ==
    SelectSeq(legs, LAMBDA leg : leg.option_type = t /\ leg.side = s)

RECURSIVE QtySum(_)
QtySum(legs) == IF legs = <<>> THEN 0 ELSE Head(legs).qty + QtySum(Tail(legs))

\* a variant that lets only a strictly higher strike cover a short call
CallCoverQtyStrict(short, long_calls) ==
    QtySum(SelectSeq(long_calls, LAMBDA long : long.strike > short.strike))

\* sum(long.qty for long in long_calls if long.strike >= short.strike)
CallCoverQty(short, long_calls) ==
    QtySum(SelectSeq(long_calls, LAMBDA long : long.strike >= short.strike))

\* sum(long.qty for long in long_puts if long.strike <= short.strike)
PutCoverQty(short, long_puts) ==
    QtySum(SelectSeq(long_puts, LAMBDA long : long.strike <= short.strike))

\* the "for short in short_calls" loop: TRUE at the first uncovered short
RECURSIVE AnyShortCallUncovered(_, _)
AnyShortCallUncovered(shorts, long_calls) ==
    IF shorts = <<>> THEN FALSE
    ELSE IF CallCoverQty(Head(shorts), long_calls) < Head(shorts).qty THEN TRUE
    ELSE AnyShortCallUncovered(Tail(shorts), long_calls)

RECURSIVE AnyShortPutUncovered(_, _)
AnyShortPutUncovered(shorts, long_puts) ==
    IF shorts = <<>> THEN FALSE
    ELSE IF PutCoverQty(Head(shorts), long_puts) < Head(shorts).qty THEN TRUE
    ELSE AnyShortPutUncovered(Tail(shorts), long_puts)

IsUndefinedRisk(strat) ==
    LET short_calls == LegsOf(strat.legs, "call", "sell")
        short_puts  == LegsOf(strat.legs, "put", "sell")
        long_calls  == LegsOf(strat.legs, "call", "buy")
        long_puts   == LegsOf(strat.legs, "put", "buy")
    IN  IF AnyShortCallUncovered(short_calls, long_calls) THEN TRUE
        ELSE IF AnyShortPutUncovered(short_puts, long_puts) THEN TRUE
        ELSE FALSE

RiskClassification(strat) ==
    IF IsUndefinedRisk(strat) THEN "undefined_risk" ELSE "defined_risk"

(***************************************************************************)
(* compute_metrics and _convexity (strategies/scoring.py).  P&Ls are       *)
(* integers in dollars; every metric is an exact rational.                 *)
(***************************************************************************)
CONVEXITY_CAP == 10

CONVEXITY_EPS == Rat(1, 1000000)

RECURSIVE InsertAsc(_, _)
InsertAsc(x, s) ==
    IF s = <<>> THEN <<x>>
    ELSE IF x < Head(s) THEN <<x>> \o s
    ELSE <<Head(s)>> \o InsertAsc(x, Tail(s))

\* np.sort
RECURSIVE SortAsc(_)
SortAsc(s) == IF s = <<>> THEN <<>> ELSE InsertAsc(Head(s), SortAsc(Tail(s)))

\* np.mean of an integer array
Mean(s) == Rat(SeqSum(s), Len(s))

\* float(np.mean(pnls))
ExpectedValue(pnls) == Mean(pnls)

\* np.mean(np.sort(pnls)[: max(int(0.05 * len(pnls)), 1)])
CVaR(pnls) == Mean(SubSeq(SortAsc(pnls), 1, Max2(Len(pnls) \div 20, 1)))

Convexity(pnls) ==
    LET n      == Len(pnls)
        tail   == Max2(n \div 10, 1)
        sorted == SortAsc(pnls)
        top    == Mean(SubSeq(sorted, n - tail + 1, n))
        bottom == Mean(SubSeq(sorted, 1, tail))
    IN  IF RLt(RAbs(bottom), CONVEXITY_EPS) THEN RInt(CONVEXITY_CAP)
        ELSE RMin(RDiv(top, RAbs(bottom)), RInt(CONVEXITY_CAP))

\* a variant that falls back to a dispersion of the P&L array itself (its range)
RobustnessStandalone(pnls, robustness_override) ==
    IF robustness_override = NoneOpt
    THEN [err |-> NoneVal,
          value |-> RInt(SortAsc(pnls)[Len(pnls)] - SortAsc(pnls)[1])]
    ELSE [err |-> NoneVal, value |-> RInt(robustness_override[1])]

\* "if robustness_override is None: raise ValueError(...)", else float(override)
Robustness(pnls, robustness_override) ==
    IF robustness_override = NoneOpt
    THEN [err |-> "ValueError", value |-> RInt(0)]
    ELSE [err |-> NoneVal, value |-> RInt(robustness_override[1])]

\* the record compute_metrics returns (err = "ValueError" when it raises).
\* The reporting pass-through fields (legs, capital, greeks, breakevens) are
\* left out.
ComputeMetricsResult(strat, pnls, robustness_override) ==
    LET rob == Robustness(pnls, robustness_override)
    IN  [err     |-> rob.err,
         metrics |-> [strategy            |-> strat.name,
                      ev                  |-> ExpectedValue(pnls),
                      cvar                |-> CVaR(pnls),
                      convexity           |-> Convexity(pnls),
                      robustness          |-> rob.value,
                      max_loss            |-> SortAsc(pnls)[1],
                      risk_classification |-> RiskClassification(strat)]]

(***************************************************************************)
(* score_strategies, decompose_score and _normalize                        *)
(* (strategies/scoring.py).                                                *)
(***************************************************************************)
\* config.SCORING_WEIGHTS, in the dict's order
SCORING_WEIGHTS ==
    << [key |-> "ev",         weight |-> Rat(4, 10)],
       [key |-> "convexity",  weight |-> Rat(3, 10)],
       [key |-> "cvar",       weight |-> Rat(2, 10)],
       [key |-> "robustness", weight |-> Rat(1, 10)] >>

\* the inverse of math.isclose's default rel_tol (1e-09); abs_tol is 0.0
REL_TOL_INV == 1000000000

\* math.isclose(a, b): |a - b| <= rel_tol * max(|a|, |b|).  With |a - b| = p/q
\* and max(|a|, |b|) = m/n the test is p * n * 10^9 <= m * q, taken as
\* p * n <= floor(m * q / 10^9) to stay within machine integers.
IsClose(a, b) ==
    LET diff == RAbs(RSub(a, b))
        big  == RMax(RAbs(a), RAbs(b))
    IN  diff[1] * big[2] <= (big[1] * diff[2]) \div REL_TOL_INV

MetricValues(items, key) == [i \in 1..Len(items) |-> items[i][key]]

RECURSIVE MinMaxScale(_, _, _)
MinMaxScale(values, min_val, max_val) ==
    IF values = <<>> THEN <<>>
    ELSE <<RDiv(RSub(Head(values), min_val), RSub(max_val, min_val))>>
         \o MinMaxScale(Tail(values), min_val, max_val)

\* a variant that takes the constant 0.5 only when min and max are equal
NormalizeExact(values) ==
    LET min_val == RSeqMin(values)
        max_val == RSeqMax(values)
    IN  IF min_val = max_val
        THEN [i \in 1..Len(values) |-> Rat(1, 2)]
        ELSE MinMaxScale(values, min_val, max_val)

Normalize(values) ==
    LET min_val == RSeqMin(values)
        max_val == RSeqMax(values)
    IN  IF IsClose(min_val, max_val)
        THEN [i \in 1..Len(values) |-> Rat(1, 2)]
        ELSE MinMaxScale(values, min_val, max_val)

\* round(x, 4) for 0 <= x: to the nearest 1/10000, halves to the even neighbour
Round4(x) ==
    LET y    == RMul(x, RInt(10000))
        lo   == RFloor(y)
        frac == RSub(y, RInt(lo))
        half == Rat(1, 2)
        n    == IF RLt(frac, half) THEN lo
                ELSE IF RLt(half, frac) THEN lo + 1
                ELSE IF lo % 2 = 0 THEN lo ELSE lo + 1
    IN  Rat(n, 10000)

\* decompose_score: per field the normalized value and its contribution
RECURSIVE DecomposeFields(_, _, _)
DecomposeFields(item, stats, k) ==
    IF k > Len(SCORING_WEIGHTS) THEN <<>>
    ELSE LET field == SCORING_WEIGHTS[k].key
             lo    == stats[field][1]
             hi    == stats[field][2]
             normalized == IF hi # lo
                           THEN RDiv(RSub(item[field], lo), RSub(hi, lo))
                           ELSE Rat(1, 2)
         IN  << [field        |-> field,
                 norm         |-> Round4(normalized),
                 contribution |-> Round4(RMul(normalized,
                                              SCORING_WEIGHTS[k].weight))] >>
             \o DecomposeFields(item, stats, k + 1)

RECURSIVE ContributionSum(_)
ContributionSum(fields) ==
    IF fields = <<>> THEN RInt(0)
    ELSE RAdd(Head(fields).contribution, ContributionSum(Tail(fields)))

DecomposeScore(item, stats) ==
    LET fields == DecomposeFields(item, stats, 1)
    IN  [fields |-> fields, total |-> Round4(ContributionSum(fields))]

\* "for key, weight in SCORING_WEIGHTS.items(): score += weight * norm[key][idx]"
RECURSIVE WeightedSum(_, _, _)
WeightedSum(norm, idx, k) ==
    IF k = 0 THEN RInt(0)
    ELSE RAdd(WeightedSum(norm, idx, k - 1),
              RMul(SCORING_WEIGHTS[k].weight, norm[SCORING_WEIGHTS[k].key][idx]))

\* the rank written in the loop body, for the item at index idx of the input
LoopRank(idx) == idx + 1

\* one pass of the "for idx, item in enumerate(results)" loop body; idx is
\* Python's 0-based index
ScoreItem(item, idx, norm, stats) ==
    LET base    == WeightedSum(norm, idx + 1, Len(SCORING_WEIGHTS))
        penalty == item.risk_classification = "undefined_risk"
        score   == IF penalty THEN RMul(base, Rat(9, 10)) ELSE base
        scored  == [score |-> score, risk_penalty_applied |-> penalty,
                    rank  |-> LoopRank(idx)] @@ item
    IN  [score_components |-> DecomposeScore(scored, stats)] @@ scored

\* sorted(..., key=score, reverse=True) is stable: x goes behind every element
\* whose score is at least its own
RECURSIVE InsertDesc(_, _)
InsertDesc(x, s) ==
    IF s = <<>> THEN <<x>>
    ELSE IF RLt(Head(s).score, x.score) THEN <<x>> \o s
    ELSE <<Head(s)>> \o InsertDesc(x, Tail(s))

RECURSIVE SortedDesc(_, _)
SortedDesc(items, n) ==
    IF n = 0 THEN <<>> ELSE InsertDesc(items[n], SortedDesc(items, n - 1))

\* the items as the loop leaves them (the dicts are mutated in place)
ScoredItems(items) ==
    LET ev   == MetricValues(items, "ev")
        cx   == MetricValues(items, "convexity")
        cv   == MetricValues(items, "cvar")
        rb   == MetricValues(items, "robustness")
        norm == [ev         |-> Normalize(ev),
                 convexity  |-> Normalize(cx),
                 cvar       |-> Normalize(cv),
                 robustness |-> Normalize(rb)]
        stats == [ev         |-> <<RSeqMin(ev), RSeqMax(ev)>>,
                  convexity  |-> <<RSeqMin(cx), RSeqMax(cx)>>,
                  cvar       |-> <<RSeqMin(cv), RSeqMax(cv)>>,
                  robustness |-> <<RSeqMin(rb), RSeqMax(rb)>>]
    IN  [i \in 1..Len(items) |-> ScoreItem(items[i], i - 1, norm, stats)]

(***************************************************************************)
(* Entry-condition gates (strategies/backspreads.py, calendar.py,          *)
(* post_event_calendar.py) and the registry (strategies/registry.py).      *)
(* Units: iv_ratio and event_variance_ratio in 1/100; implied_move,        *)
(* historical_p75 and short_delta in 1/1000; the DTE fields in days.       *)
(***************************************************************************)
BACK3_DTE_MIN == 21

BACK3_DTE_MAX == 45

CALENDAR_MIN_TERM_SPREAD_DAYS == 14

\* 1.40, in 1/100
BACKSPREAD_MIN_IV_RATIO == 140

\* 0.50, in 1/100
BACKSPREAD_MIN_EVENT_VAR_RATIO == 50

\* 0.90, in 1/100
BACKSPREAD_MAX_IMPLIED_OVER_P75 == 90

\* 0.08, in 1/1000
BACKSPREAD_MIN_SHORT_DELTA == 80

POST_EVENT_CALENDAR_ENTRY_MIN_DAYS == 1

POST_EVENT_CALENDAR_ENTRY_MAX_DAYS == 3

\* 1.10, in 1/100
POST_EVENT_CALENDAR_MIN_IV_RATIO == 110

POST_EVENT_CALENDAR_MIN_SHORT_DTE == 3

\* snapshot.get(key, default)
SnapGet(snap, key, default) ==
    IF key \in DOMAIN snap THEN snap[key] ELSE default

\* a variant whose delta test is strict
DeltaOkStrict(short_delta) == short_delta > BACKSPREAD_MIN_SHORT_DELTA

\* delta_ok = short_delta >= BACKSPREAD_MIN_SHORT_DELTA
DeltaOk(short_delta) == short_delta >= BACKSPREAD_MIN_SHORT_DELTA

BackspreadConditionsMet(snap) ==
    LET iv_ratio        == SnapGet(snap, "iv_ratio", 0)
        event_var_ratio == SnapGet(snap, "event_variance_ratio", 0)
        implied_move    == SnapGet(snap, "implied_move", 0)
        historical_p75  == SnapGet(snap, "historical_p75", 1000)
        short_delta     == SnapGet(snap, "short_delta", 0)
        back_dte        == SnapGet(snap, "back_dte", 0)
        iv_ok      == iv_ratio >= BACKSPREAD_MIN_IV_RATIO
        event_ok   == event_var_ratio >= BACKSPREAD_MIN_EVENT_VAR_RATIO
        \* implied_move <= historical_p75 * 0.90, both sides times 100
        pricing_ok == implied_move * 100
                        <= historical_p75 * BACKSPREAD_MAX_IMPLIED_OVER_P75
        delta_ok   == DeltaOk(short_delta)
        dte_ok     == BACK3_DTE_MIN <= back_dte /\ back_dte <= BACK3_DTE_MAX
    IN  iv_ok /\ event_ok /\ pricing_ok /\ delta_ok /\ dte_ok

\* a variant that takes the signed difference back_dte - front_dte
TermSpreadDaysSigned(front_dte, back_dte) == back_dte - front_dte

\* term_spread_days = abs(back_dte - front_dte)
TermSpreadDays(front_dte, back_dte) == Abs(back_dte - front_dte)

CalendarConditionsMet(snap) ==
    LET days_after == SnapGet(snap, "days_after_event", 0)
        front_dte  == SnapGet(snap, "front_dte", 0)
        back_dte   == SnapGet(snap, "back_dte", 0)
    IN  IF days_after # 0 THEN FALSE
        ELSE IF TermSpreadDays(front_dte, back_dte)
                    < CALENDAR_MIN_TERM_SPREAD_DAYS THEN FALSE
        ELSE TRUE

\* a variant whose entry window has no lower end
EntryWindowOkNoMin(days_after) ==
    days_after <= POST_EVENT_CALENDAR_ENTRY_MAX_DAYS

\* MIN_DAYS <= days_after <= MAX_DAYS
EntryWindowOk(days_after) ==
    /\ POST_EVENT_CALENDAR_ENTRY_MIN_DAYS <= days_after
    /\ days_after <= POST_EVENT_CALENDAR_ENTRY_MAX_DAYS

PostEventCalendarConditionsMet(snap) ==
    LET days_after == SnapGet(snap, "days_after_event", 0)
        iv_ratio   == SnapGet(snap, "iv_ratio", 0)
        front_dte  == SnapGet(snap, "front_dte", 0)
        entry_window_ok == EntryWindowOk(days_after)
        iv_ratio_ok     == iv_ratio >= POST_EVENT_CALENDAR_MIN_IV_RATIO
        dte_ok          == front_dte >= POST_EVENT_CALENDAR_MIN_SHORT_DTE
    IN  entry_window_ok /\ iv_ratio_ok /\ dte_ok

\* STRATEGY_CONDITIONS: name -> gate function
STRATEGY_CONDITIONS ==
    [n \in {"CALL_BACKSPREAD", "PUT_BACKSPREAD", "CALENDAR",
            "POST_EVENT_CALENDAR"} |->
        CASE n = "CALL_BACKSPREAD"     -> "backspread_conditions_met"
          [] n = "PUT_BACKSPREAD"      -> "backspread_conditions_met"
          [] n = "CALENDAR"            -> "calendar_conditions_met"
          [] n = "POST_EVENT_CALENDAR" -> "post_event_calendar_conditions_met"]

\* STRATEGY_BUILDERS: name -> builder function
STRATEGY_BUILDERS ==
    [n \in {"CALL_BACKSPREAD", "PUT_BACKSPREAD", "CALENDAR",
            "POST_EVENT_CALENDAR"} |->
        CASE n = "CALL_BACKSPREAD"     -> "build_call_backspread"
          [] n = "PUT_BACKSPREAD"      -> "build_put_backspread"
          [] n = "CALENDAR"            -> "build_calendar"
          [] n = "POST_EVENT_CALENDAR" -> "build_post_event_calendar"]

\* the module-level assert, for tables with the given key sets: what
\* importing the module ends in
RegistryImport(condition_keys, builder_keys) ==
    IF condition_keys = builder_keys THEN "loaded" ELSE "AssertionError"

\* calling a gate function by its name
CallCondition(fn, snap) ==
    CASE fn = "backspread_conditions_met" -> BackspreadConditionsMet(snap)
      [] fn = "calendar_conditions_met"   -> CalendarConditionsMet(snap)
      [] fn = "post_event_calendar_conditions_met"
                                          -> PostEventCalendarConditionsMet(snap)

\* a variant that looks the name up with a default gate that declines
ShouldBuildStrategyLenient(name, snap) ==
    IF name \notin DOMAIN STRATEGY_CONDITIONS THEN "False"
    ELSE IF CallCondition(STRATEGY_CONDITIONS[name], snap) THEN "True"
    ELSE "False"

\* should_build_strategy: "True", "False", or the KeyError of the lookup
ShouldBuildStrategy(name, snap) ==
    IF name \notin DOMAIN STRATEGY_CONDITIONS THEN "KeyError"
    ELSE IF CallCondition(STRATEGY_CONDITIONS[name], snap) THEN "True"
    ELSE "False"

(***************************************************************************)
(* Event-variance extraction (analytics/event_vol.py, utils.py).  Dates    *)
(* are day numbers with day 0 a Monday; a chain is a sequence of quotes    *)
(* [strike, iv] where iv is an optional rational (<<>> is NaN).            *)
(***************************************************************************)
TIME_EPSILON == Rat(1, 1000000)

\* business days per year, the 252.0 of event_vol.py
YEAR_DAYS == 252

IsBusinessDay(d) == (d % 7) \notin {5, 6}

\* utils.business_days: pd.bdate_range(start, end).size - 1, 0 if end <= start
BusinessDays(start, end) ==
    IF end <= start THEN 0
    ELSE Cardinality({d \in start..end : IsBusinessDay(d)}) - 1

RECURSIVE RSeqSum(_)
RSeqSum(s) == IF s = <<>> THEN RInt(0) ELSE RAdd(Head(s), RSeqSum(Tail(s)))

\* the strike nearest to spot (the chains modelled have no two distinct
\* strikes at the same distance)
AtmStrike(chain, spot) ==
    LET strikes == {chain[i].strike : i \in 1..Len(chain)}
    IN  CHOOSE k \in strikes :
            \A other \in strikes : Abs(k - spot) <= Abs(other - spot)

\* utils.atm_iv: the mean of the non-NaN IVs at the ATM strike, or ValueError
AtmIv(chain, spot) ==
    LET atm_strike == AtmStrike(chain, spot)
        atm == SelectSeq(chain, LAMBDA q : q.strike = atm_strike)
        ivs == SelectSeq(atm, LAMBDA q : q.iv # NoneOpt)
    IN  IF ivs = <<>> THEN [err |-> "ValueError", value |-> RInt(0)]
        ELSE [err |-> NoneVal,
              value |-> RDiv(RSeqSum([i \in 1..Len(ivs) |-> ivs[i].iv[1]]),
                             RInt(Len(ivs)))]

\* max(business_days(start, end) / 252.0, TIME_EPSILON)
YearFraction(start, end) ==
    RMax(Rat(BusinessDays(start, end), YEAR_DAYS), TIME_EPSILON)

LinearInterp(x1, y1, x2, y2, x_target) ==
    IF x2 = x1 THEN y1
    ELSE LET weight == RDiv(RSub(x_target, x1), RSub(x2, x1))
         IN  RAdd(y1, RMul(weight, RSub(y2, y1)))

RSquare(a) == RMul(a, a)

\* event_var = max(event_var_daily, 0.0)
ClampEventVar(event_var_daily) == RMax(event_var_daily, RInt(0))

\* tv_pre: the total variance interpolated at the pre-event time
TvPre(back1_iv, back2_opt, inp) ==
    LET t_front  == YearFraction(inp.today, inp.front_expiry)
        t_back1  == YearFraction(inp.today, inp.back1_expiry)
        dt_event == YearFraction(inp.event_date, inp.front_expiry)
        x_pre    == RMax(RSub(t_front, dt_event), TIME_EPSILON)
    IN  IF inp.back2_chain # NoneOpt /\ inp.back2_expiry # NoneOpt
        THEN LET t_back2 == YearFraction(inp.today, inp.back2_expiry[1])
             IN  LinearInterp(t_back1, RMul(t_back1, RSquare(back1_iv)),
                              t_back2, RMul(t_back2, RSquare(back2_opt[1])),
                              x_pre)
        ELSE RMul(x_pre, RSquare(back1_iv))

\* the body of event_variance once the ATM IVs are known
EventVarianceRecord(front_iv, back1_iv, back2_opt, inp) ==
    LET t_front  == YearFraction(inp.today, inp.front_expiry)
        t_back1  == YearFraction(inp.today, inp.back1_expiry)
        dt_event == YearFraction(inp.event_date, inp.front_expiry)
        has_back2 == inp.back2_chain # NoneOpt /\ inp.back2_expiry # NoneOpt
        t_back2  == IF has_back2
                    THEN YearFraction(inp.today, inp.back2_expiry[1])
                    ELSE RInt(0)
        tv_pre   == TvPre(back1_iv, back2_opt, inp)
        assumption == IF has_back2 THEN "Term structure interpolation"
                      ELSE "Two-point term structure interpolation"
        raw_event_var_annualized ==
            RDiv(RSub(RMul(t_front, RSquare(front_iv)), tv_pre), dt_event)
        event_var_daily == RDiv(raw_event_var_annualized, RInt(YEAR_DAYS))
        ratio == RDiv(RAbs(event_var_daily),
                      RMax(RDiv(RSquare(front_iv), RInt(YEAR_DAYS)),
                           TIME_EPSILON))
        warning_level ==
            IF RLt(raw_event_var_annualized, RInt(0))
            THEN (IF RLt(Rat(10, 100), ratio) THEN "severe" ELSE "mild")
            ELSE NoneVal
        event_var == ClampEventVar(event_var_daily)
        total_front_var ==
            RDiv(RMul(t_front, RSquare(front_iv)), RInt(YEAR_DAYS))
        raw_event_var == event_var_daily
        event_variance_ratio ==
            IF RLt(RInt(0), total_front_var)
            THEN RDiv(raw_event_var, total_front_var) ELSE RInt(0)
    IN  [err                  |-> NoneVal,
         front_iv             |-> front_iv,
         back_iv              |-> back1_iv,
         event_var            |-> event_var,
         raw_event_var        |-> raw_event_var,
         ratio                |-> ratio,
         warning_level        |-> warning_level,
         assumption           |-> assumption,
         dt_event             |-> dt_event,
         back2_iv             |-> IF has_back2 THEN back2_opt ELSE NoneOpt,
         front_back_spread    |-> RSub(front_iv, back1_iv),
         back_slope           |-> IF has_back2
                                  THEN Some(RSub(back1_iv, back2_opt[1]))
                                  ELSE NoneOpt,
         t_front              |-> t_front,
         t_back1              |-> t_back1,
         t_back2              |-> IF has_back2 THEN Some(t_back2) ELSE NoneOpt,
         event_variance_ratio |-> event_variance_ratio,
         interpolation_method |->
             IF has_back2 THEN "Three-point total variance interpolation"
             ELSE "Two-point term structure interpolation",
         negative_event_var   |-> RLt(raw_event_var, RInt(0)),
         term_structure_note  |->
             IF RLt(front_iv, back1_iv)
             THEN "Front IV below back IV; term structure inversion."
             ELSE NoneVal]

\* event_variance: the record it returns; err = "ValueError" when an ATM IV
\* is not available
EventVariance(inp) ==
    LET front == AtmIv(inp.front_chain, inp.spot)
        back1 == AtmIv(inp.back1_chain, inp.spot)
        has_back2 == inp.back2_chain # NoneOpt /\ inp.back2_expiry # NoneOpt
        back2 == IF has_back2 THEN AtmIv(inp.back2_chain[1], inp.spot)
                 ELSE [err |-> NoneVal, value |-> RInt(0)]
    IN  IF front.err # NoneVal \/ back1.err # NoneVal \/ back2.err # NoneVal
        THEN [err |-> "ValueError"]
        ELSE EventVarianceRecord(front.value, back1.value,
                                 IF has_back2 THEN Some(back2.value)
                                 ELSE NoneOpt, inp)

(***************************************************************************)
(* Bounds and input domains.                                               *)
(***************************************************************************)
\* the most candidates one run hands to score_strategies
MaxBatch == 3

\* the most legs of a strategy handed to _is_undefined_risk
MaxLegs == 2

\* strategies scored in a run: a naked short call, and a short call with a
\* long call at a higher strike
ScoredStrategies ==
    { Strategy("short_call", <<Leg("call", 100, 1, "sell", "front")>>),
      Strategy("call_spread", <<Leg("call", 100, 1, "sell", "front"),
                                Leg("call", 105, 1, "buy", "front")>>) }

\* base P&L arrays, in dollars
PnlSamples == { <<-1, 1>>, <<4, -2>> }

\* robustness values 1/(sigma + 1e-9) for a vanishing sigma
RobustnessInputs == { 999999999, 1000000000 }

LegUniverse ==
    { Leg(t, k, q, sd, e) : t \in {"call", "put"}, k \in {100, 105},
                            q \in {1, 2}, sd \in {"buy", "sell"},
                            e \in {"front", "back"} }

LegTuples == UNION { [1..n -> LegUniverse] : n \in 0..MaxLegs }

Snapshots ==
    [ iv_ratio             : {109, 110, 139, 140},
      event_variance_ratio : {49, 50},
      implied_move         : {90, 91},
      historical_p75       : {100},
      short_delta          : {79, 80},
      days_after_event     : {0, 1, 3, 4},
      front_dte            : {2, 3, 7, 35},
      back_dte             : {7, 20, 21, 35, 45, 46} ]

QueryNames ==
    {"CALL_BACKSPREAD", "PUT_BACKSPREAD", "CALENDAR", "POST_EVENT_CALENDAR",
     "UNREGISTERED", ""}

\* a chain as the tests build it: a call and a put at strike 100, one IV
FlatChain(iv) == << [strike |-> 100, iv |-> Some(iv)],
                    [strike |-> 100, iv |-> Some(iv)] >>

\* ATM IVs 0.4 and 0.6 (mean 0.5), and a far strike with another IV
SkewChain == << [strike |-> 100, iv |-> Some(Rat(4, 10))],
                [strike |-> 110, iv |-> Some(Rat(9, 10))],
                [strike |-> 100, iv |-> Some(Rat(6, 10))] >>

\* no IV at the ATM strike
NanChain == << [strike |-> 100, iv |-> NoneOpt],
               [strike |-> 110, iv |-> Some(Rat(3, 10))] >>

FrontChains ==
    { FlatChain(Rat(0, 10)), FlatChain(Rat(2, 10)), FlatChain(Rat(5, 10)),
      SkewChain, NanChain }

BackChains == { FlatChain(Rat(2, 10)), FlatChain(Rat(4, 10)),
                FlatChain(Rat(5, 10)) }

\* before the event: today < event_date < front_expiry < back1 (< back2)
PreEventInputs ==
    [ front_chain  : FrontChains,
      back1_chain  : BackChains,
      back2_chain  : {NoneOpt} \cup {Some(c) : c \in BackChains},
      spot         : {100},
      today        : {7, 10},
      event_date   : {14, 15},
      front_expiry : {17, 18},
      back1_expiry : {25},
      back2_expiry : {NoneOpt, Some(46)} ]

\* on or after the event day: no business day is left before the event
PostEventInputs ==
    [ front_chain  : FrontChains,
      back1_chain  : BackChains,
      back2_chain  : {NoneOpt},
      spot         : {100},
      today        : {7},
      event_date   : {6, 7},
      front_expiry : {10},
      back1_expiry : {25},
      back2_expiry : {NoneOpt} ]

EventInputs == PreEventInputs \cup PostEventInputs

(***************************************************************************)
(* The state machines.  Each specification runs one component and leaves   *)
(* the variables of the others at their idle values.                       *)
(***************************************************************************)
ScoreIdle ==
    /\ results = <<>>
    /\ ranked = <<>>
    /\ cm_call = [override |-> NoneOpt, outcome |-> "not_called",
                  returned |-> NoneOpt]

RiskIdle ==
    /\ strategy = Strategy("none", <<>>)
    /\ risk_out = "unclassified"

GateIdle ==
    /\ snapshot = <<>>
    /\ gate_out = <<>>
    /\ registry = "unloaded"

EventIdle ==
    /\ ev_in = <<>>
    /\ ev_out = [err |-> "not_called"]

scoreVars == <<results, ranked, cm_call>>

riskVars == <<strategy, risk_out>>

gateVars == <<snapshot, gate_out, registry>>

eventVars == <<ev_in, ev_out>>

KernelIdle == k_in = NoneVal /\ k_out = NoneVal

PayoffIdle == pay_in = NoneVal /\ pay_out = NoneVal

RegimeIdle == rg_in = NoneVal /\ rg_out = NoneVal /\ al_out = NoneVal

SimIdle == sim_in = NoneVal /\ sim_out = NoneVal

RunIdle == run_in = NoneVal /\ run_out = NoneVal

kernelVars == <<k_in, k_out>>

payoffVars == <<pay_in, pay_out>>

regimeVars == <<rg_in, rg_out, al_out>>

simVars == <<sim_in, sim_out>>

runVars == <<run_in, run_out>>

BuildIdle == bd_in = NoneVal /\ bd_out = NoneVal

BatchIdle == dl_in = NoneVal /\ dl_out = NoneVal

buildVars == <<bd_in, bd_out>>

batchVars == <<dl_in, dl_out>>

toolVars == <<buildVars, batchVars>>

ToolIdle == BuildIdle /\ BatchIdle

analyticsVars ==
    <<kernelVars, payoffVars, regimeVars, simVars, runVars, toolVars>>

AnalyticsIdle ==
    KernelIdle /\ PayoffIdle /\ RegimeIdle /\ SimIdle /\ RunIdle /\ ToolIdle

---------------------------------------------------------------------------
\* a call of compute_metrics, as in the loop of main() that appends the
\* record to results (the robustness argument may be left at its default
\* None); a ValueError ends the run
ComputeMetrics ==
    /\ pc = "collect"
    /\ Len(results) < MaxBatch
    /\ \E strat \in ScoredStrategies, pnls \in PnlSamples,
          rob \in {NoneOpt} \cup {Some(v) : v \in RobustnessInputs} :
          LET r == ComputeMetricsResult(strat, pnls, rob)
          IN  IF r.err # NoneVal
              THEN /\ pc' = "aborted"
                   /\ cm_call' = [override |-> rob, outcome |-> r.err,
                                  returned |-> NoneOpt]
                   /\ UNCHANGED results
              ELSE /\ pc' = "collect"
                   /\ cm_call' = [override |-> rob, outcome |-> "returned",
                                  returned |-> Some(r.metrics)]
                   /\ results' = Append(results, r.metrics)
    /\ UNCHANGED <<ranked, riskVars, gateVars, eventVars, analyticsVars>>

\* main(): ranked = score_strategies(results); min() of an empty list raises
ScoreStrategiesCall ==
    /\ pc = "collect"
    /\ IF results = <<>>
       THEN /\ pc' = "aborted"
            /\ UNCHANGED <<results, ranked>>
       ELSE LET scored == ScoredItems(results)
            IN  /\ pc' = "scored"
                /\ results' = scored
                /\ ranked' = SortedDesc(scored, Len(scored))
    /\ UNCHANGED <<cm_call, riskVars, gateVars, eventVars, analyticsVars>>

InitScore ==
    /\ pc = "collect"
    /\ ScoreIdle /\ RiskIdle /\ GateIdle /\ EventIdle /\ AnalyticsIdle

NextScore == ComputeMetrics \/ ScoreStrategiesCall

SpecScore == InitScore /\ [][NextScore]_vars

---------------------------------------------------------------------------
\* risk_classification = "undefined_risk" if _is_undefined_risk(strategy) ...
ClassifyRisk ==
    /\ pc = "risk_ready"
    /\ pc' = "risk_done"
    /\ risk_out' = RiskClassification(strategy)
    /\ UNCHANGED <<strategy, scoreVars, gateVars, eventVars, analyticsVars>>

InitRisk ==
    /\ pc = "risk_ready"
    /\ strategy \in {Strategy("candidate", legs) : legs \in LegTuples}
    /\ risk_out = "unclassified"
    /\ ScoreIdle /\ GateIdle /\ EventIdle /\ AnalyticsIdle

NextRisk == ClassifyRisk

SpecRisk == InitRisk /\ [][NextRisk]_vars

---------------------------------------------------------------------------
\* importing strategies/registry.py: the tables are built, the assert runs
ImportRegistry ==
    /\ pc = "gate"
    /\ registry = "unloaded"
    /\ registry' = RegistryImport(DOMAIN STRATEGY_CONDITIONS,
                                  DOMAIN STRATEGY_BUILDERS)
    /\ UNCHANGED <<pc, snapshot, gate_out, scoreVars, riskVars, eventVars, analyticsVars>>

\* a call of should_build_strategy(name, snapshot); a KeyError ends the run
ShouldBuild ==
    /\ pc = "gate"
    /\ registry = "loaded"
    /\ \E name \in QueryNames \ DOMAIN gate_out :
          LET r == ShouldBuildStrategy(name, snapshot)
          IN  /\ gate_out' = gate_out @@ (name :> r)
              /\ pc' = IF r = "KeyError" THEN "aborted" ELSE "gate"
    /\ UNCHANGED <<snapshot, registry, scoreVars, riskVars, eventVars, analyticsVars>>

InitGate ==
    /\ pc = "gate"
    /\ snapshot \in Snapshots
    /\ gate_out = <<>>
    /\ registry = "unloaded"
    /\ ScoreIdle /\ RiskIdle /\ EventIdle /\ AnalyticsIdle

NextGate == ImportRegistry \/ ShouldBuild

SpecGate == InitGate /\ [][NextGate]_vars

---------------------------------------------------------------------------
\* main(): event_info = event_variance(...)
RunEventVariance ==
    /\ pc = "event_ready"
    /\ pc' = "event_done"
    /\ ev_out' = EventVariance(ev_in)
    /\ UNCHANGED <<ev_in, scoreVars, riskVars, gateVars, analyticsVars>>

InitEvent ==
    /\ pc = "event_ready"
    /\ ev_in \in EventInputs
    /\ ev_out = [err |-> "not_called"]
    /\ ScoreIdle /\ RiskIdle /\ GateIdle /\ AnalyticsIdle

NextEvent == RunEventVariance

SpecEvent == InitEvent /\ [][NextEvent]_vars

(***************************************************************************)
(* Properties of score_strategies and compute_metrics, stated over the     *)
(* runs of SpecScore.                                                      *)
(***************************************************************************)
\* C1: in the list score_strategies returns, every candidate's rank is its
\* 1-based position, and no candidate has a higher score than the one before
\* it, whatever the order of the input.
C1_RankIsSortedPosition ==
    pc = "scored" =>
        \A i \in 1..Len(ranked) :
            /\ ranked[i].rank = i
            /\ i < Len(ranked) => ~RLt(ranked[i].score, ranked[i + 1].score)

\* a returned list whose first candidate carries a rank other than 1
C1_WitnessFirstNotRankOne ==
    /\ pc = "scored"
    /\ Len(ranked) >= 2
    /\ ranked[1].rank # 1
    /\ RLt(ranked[2].score, ranked[1].score)

\* the part of C1 that the returned list does satisfy: it is in descending
\* order of score and holds the candidates that were scored
C1_ReturnedListDescending ==
    pc = "scored" =>
        /\ Len(ranked) = Len(results)
        /\ \A i \in 1..Len(ranked) : \E j \in 1..Len(results) :
               ranked[i] = results[j]
        /\ \A i \in 1..(Len(ranked) - 1) :
               ~RLt(ranked[i].score, ranked[i + 1].score)

\* the batch's smallest and largest value of a metric
BatchMin(key) ==
    CHOOSE v \in {results[i][key] : i \in 1..Len(results)} :
        \A i \in 1..Len(results) : RLe(v, results[i][key])

BatchMax(key) ==
    CHOOSE v \in {results[i][key] : i \in 1..Len(results)} :
        \A i \in 1..Len(results) : RLe(results[i][key], v)

\* min-max normalization over the batch; tie says when min and max count as
\* equal
BatchNorm(key, i, tie(_, _)) ==
    IF tie(BatchMin(key), BatchMax(key)) THEN Rat(1, 2)
    ELSE RDiv(RSub(results[i][key], BatchMin(key)),
              RSub(BatchMax(key), BatchMin(key)))

ExactTie(a, b) == a = b

ExpectedScore(i, tie(_, _)) ==
    LET sum == RAdd(RAdd(RMul(Rat(4, 10), BatchNorm("ev", i, tie)),
                         RMul(Rat(3, 10), BatchNorm("convexity", i, tie))),
                    RAdd(RMul(Rat(2, 10), BatchNorm("cvar", i, tie)),
                         RMul(Rat(1, 10), BatchNorm("robustness", i, tie))))
    IN  IF results[i].risk_classification = "undefined_risk"
        THEN RMul(sum, Rat(9, 10)) ELSE sum

PenaltyFlagExact(i) ==
    results[i].risk_penalty_applied
        = (results[i].risk_classification = "undefined_risk")

\* C2, as the code has it: score = 0.4 n(ev) + 0.3 n(convexity) + 0.2 n(cvar)
\* + 0.1 n(robustness) with n the min-max normalization over this batch, n =
\* 0.5 for every candidate when the batch minimum and maximum are equal
\* within math.isclose's relative tolerance 1e-9; the sum is multiplied by
\* 0.9 exactly for undefined_risk candidates, and risk_penalty_applied is
\* true exactly for them.
C2_ScoreFormulaIsClose ==
    pc = "scored" =>
        \A i \in 1..Len(results) :
            /\ results[i].score = ExpectedScore(i, IsClose)
            /\ PenaltyFlagExact(i)

\* C2 as stated: n = 0.5 only when the batch minimum equals the maximum
C2_ScoreFormulaExactTie ==
    pc = "scored" =>
        \A i \in 1..Len(results) :
            /\ results[i].score = ExpectedScore(i, ExactTie)
            /\ PenaltyFlagExact(i)

\* a scored batch with a penalized and an unpenalized candidate, a metric
\* that is spread out and a metric whose values differ by less than 1e-9
C2_WitnessMixedBatch ==
    /\ pc = "scored"
    /\ \E i, j \in 1..Len(results) :
          /\ results[i].risk_penalty_applied
          /\ ~results[j].risk_penalty_applied
          /\ results[i].ev # results[j].ev
    /\ BatchMin("robustness") # BatchMax("robustness")
    /\ IsClose(BatchMin("robustness"), BatchMax("robustness"))

\* C8: compute_metrics never derives robustness from the P&L array: a call
\* without a robustness value ends in an error and returns no metrics, and
\* the robustness of a returned record is the value that was supplied.
C8_RobustnessMustBeSupplied ==
    /\ (cm_call.outcome # "not_called" /\ cm_call.override = NoneOpt) =>
           /\ cm_call.outcome = "ValueError"
           /\ cm_call.returned = NoneOpt
           /\ pc = "aborted"
    /\ cm_call.returned # NoneOpt =>
           /\ cm_call.override # NoneOpt
           /\ cm_call.returned[1].robustness = RInt(cm_call.override[1])
    /\ \A i \in 1..Len(results) :
           \E v \in RobustnessInputs : results[i].robustness = RInt(v)

\* a call without a robustness value was rejected after an earlier call with
\* one had returned its metrics
C8_WitnessRejectedCall ==
    /\ cm_call.outcome = "ValueError"
    /\ cm_call.override = NoneOpt
    /\ Len(results) >= 1

(***************************************************************************)
(* Properties of _is_undefined_risk, stated over the runs of SpecRisk.     *)
(***************************************************************************)
\* a long leg of the same option type at an equal-or-better strike
CoversLeg(long, short) ==
    /\ long.side = "buy"
    /\ long.option_type = short.option_type
    /\ IF short.option_type = "call" THEN long.strike >= short.strike
       ELSE long.strike <= short.strike

\* the quantity of the first n legs that covers the short leg
RECURSIVE CoverUpTo(_, _, _)
CoverUpTo(legs, short, n) ==
    IF n = 0 THEN 0
    ELSE CoverUpTo(legs, short, n - 1)
         + (IF CoversLeg(legs[n], short) THEN legs[n].qty ELSE 0)

SomeShortLegUncovered(legs) ==
    \E i \in 1..Len(legs) :
        /\ legs[i].side = "sell"
        /\ CoverUpTo(legs, legs[i], Len(legs)) < legs[i].qty

\* C3: a strategy is undefined_risk iff some short leg is not fully
\* quantity-covered by long legs of its option type at an equal-or-better
\* strike (>= for calls, <= for puts), and defined_risk otherwise; a naked
\* short call is undefined_risk, a short call with a long call at an
\* equal-or-higher strike of the same expiry is defined_risk, and a
\* same-strike calendar (short front, long back) is defined_risk.
C3_UndefinedRiskIffUncoveredShort ==
    pc = "risk_done" =>
        LET legs == strategy.legs
        IN  /\ risk_out = IF SomeShortLegUncovered(legs) THEN "undefined_risk"
                          ELSE "defined_risk"
            /\ (Len(legs) = 1 /\ legs[1].side = "sell"
                    /\ legs[1].option_type = "call")
                   => risk_out = "undefined_risk"
            /\ (Len(legs) = 2
                    /\ legs[1].side = "sell" /\ legs[1].option_type = "call"
                    /\ legs[2].side = "buy" /\ legs[2].option_type = "call"
                    /\ legs[2].strike >= legs[1].strike
                    /\ legs[2].qty >= legs[1].qty
                    /\ legs[2].expiry = legs[1].expiry)
                   => risk_out = "defined_risk"
            /\ (Len(legs) = 2
                    /\ legs[1].side = "sell" /\ legs[1].expiry = "front"
                    /\ legs[2].side = "buy" /\ legs[2].expiry = "back"
                    /\ legs[2].option_type = legs[1].option_type
                    /\ legs[2].strike = legs[1].strike
                    /\ legs[2].qty >= legs[1].qty)
                   => risk_out = "defined_risk"

\* a short call with a long call of the same strike and expiry was classified
C3_WitnessCoveredShortCall ==
    /\ pc = "risk_done"
    /\ strategy.legs = << Leg("call", 100, 1, "sell", "front"),
                          Leg("call", 100, 1, "buy", "front") >>
    /\ risk_out = "defined_risk"

(***************************************************************************)
(* Properties of the entry gates and the registry, stated over the runs of *)
(* SpecGate.  gate_out holds the result of every should_build_strategy     *)
(* call made on the snapshot.                                              *)
(***************************************************************************)
\* the four conditions of the backspread gate other than the delta test
BackspreadOtherFourPass ==
    /\ snapshot.iv_ratio >= 140
    /\ snapshot.event_variance_ratio >= 50
    /\ snapshot.implied_move * 100 <= snapshot.historical_p75 * 90
    /\ 21 <= snapshot.back_dte /\ snapshot.back_dte <= 45

\* C4: the ratio-backspread gate (call or put) admits a snapshot iff
\* iv_ratio >= 1.40, event_variance_ratio >= 0.50, implied_move <=
\* historical_p75 * 0.90, short_delta >= 0.08 and 21 <= back_dte <= 45; with
\* the other four conditions passing, short_delta = 0.08 is admitted and
\* short_delta = 0.079 is rejected.
C4_BackspreadGateIff ==
    \A name \in {"CALL_BACKSPREAD", "PUT_BACKSPREAD"} \cap DOMAIN gate_out :
        /\ gate_out[name] = IF BackspreadOtherFourPass
                               /\ snapshot.short_delta >= 80
                            THEN "True" ELSE "False"
        /\ (BackspreadOtherFourPass /\ snapshot.short_delta = 80)
               => gate_out[name] = "True"
        /\ (BackspreadOtherFourPass /\ snapshot.short_delta = 79)
               => gate_out[name] = "False"

\* both backspread gates admitted a snapshot whose short_delta is exactly 0.08
\* and whose back_dte is at the upper end of its window
C4_WitnessDeltaAtThreshold ==
    /\ "CALL_BACKSPREAD" \in DOMAIN gate_out
    /\ "PUT_BACKSPREAD" \in DOMAIN gate_out
    /\ gate_out["CALL_BACKSPREAD"] = "True"
    /\ gate_out["PUT_BACKSPREAD"] = "True"
    /\ snapshot.short_delta = 80
    /\ snapshot.back_dte = 45

\* the snapshot with front_dte and back_dte exchanged
SwappedDte ==
    [snapshot EXCEPT !.front_dte = snapshot.back_dte,
                     !.back_dte = snapshot.front_dte]

\* C5: the calendar gate admits a snapshot iff days_after_event = 0 and
\* |back_dte - front_dte| >= 14; exchanging front_dte and back_dte never
\* changes the result, and front 35 / back 7 passes as front 7 / back 35 does.
C5_CalendarGateIff ==
    "CALENDAR" \in DOMAIN gate_out =>
        LET diff == snapshot.back_dte - snapshot.front_dte
        IN  /\ gate_out["CALENDAR"]
                   = IF snapshot.days_after_event = 0
                        /\ (diff >= 14 \/ diff <= -14)
                     THEN "True" ELSE "False"
            /\ gate_out["CALENDAR"] = ShouldBuildStrategy("CALENDAR", SwappedDte)
            /\ (snapshot.days_after_event = 0
                    /\ <<snapshot.front_dte, snapshot.back_dte>>
                           \in {<<35, 7>>, <<7, 35>>})
                   => gate_out["CALENDAR"] = "True"

\* the calendar gate admitted an inverted term structure: front 35, back 7
C5_WitnessInvertedTermStructure ==
    /\ "CALENDAR" \in DOMAIN gate_out
    /\ gate_out["CALENDAR"] = "True"
    /\ snapshot.front_dte = 35
    /\ snapshot.back_dte = 7

\* C6: the post-event calendar gate admits a snapshot iff days_after_event is
\* in [1, 3], iv_ratio >= 1.10 and front_dte >= 3; no snapshot is admitted by
\* both the calendar gate and the post-event calendar gate.
C6_PostEventGateIff ==
    /\ "POST_EVENT_CALENDAR" \in DOMAIN gate_out =>
           gate_out["POST_EVENT_CALENDAR"]
               = IF snapshot.days_after_event \in 1..3
                    /\ snapshot.iv_ratio >= 110
                    /\ snapshot.front_dte >= 3
                 THEN "True" ELSE "False"
    /\ ~(/\ ShouldBuildStrategy("CALENDAR", snapshot) = "True"
         /\ ShouldBuildStrategy("POST_EVENT_CALENDAR", snapshot) = "True")
    /\ {"CALENDAR", "POST_EVENT_CALENDAR"} \subseteq DOMAIN gate_out =>
           ~(gate_out["CALENDAR"] = "True"
                 /\ gate_out["POST_EVENT_CALENDAR"] = "True")

\* on the last day of the window, with iv_ratio and front_dte at their
\* thresholds, the post-event gate admitted a snapshot whose term spread would
\* pass the calendar gate, and the calendar gate declined it
C6_WitnessPostEventOnly ==
    /\ {"CALENDAR", "POST_EVENT_CALENDAR"} \subseteq DOMAIN gate_out
    /\ gate_out["POST_EVENT_CALENDAR"] = "True"
    /\ gate_out["CALENDAR"] = "False"
    /\ snapshot.days_after_event = 3
    /\ snapshot.iv_ratio = 110
    /\ snapshot.front_dte = 3
    /\ snapshot.back_dte = 35

\* key sets a registry could be written with
RegistryNames ==
    {"CALL_BACKSPREAD", "PUT_BACKSPREAD", "CALENDAR", "POST_EVENT_CALENDAR",
     "UNREGISTERED"}

\* C7: the gate table and the builder table have identical key sets; the
\* equality is asserted when the registry module is imported, so tables with
\* a name in one and not in the other raise before any gate can be called;
\* should_build_strategy on an unregistered name raises instead of returning
\* false.
C7_RegistryKeySetsAgree ==
    /\ DOMAIN STRATEGY_CONDITIONS = DOMAIN STRATEGY_BUILDERS
    /\ registry \in {"unloaded", "loaded"}
    /\ gate_out # <<>> => registry = "loaded"
    /\ \A c \in SUBSET RegistryNames :
           /\ RegistryImport(c, c) = "loaded"
           /\ \A n \in RegistryNames \ c :
                  /\ RegistryImport(c \cup {n}, c) = "AssertionError"
                  /\ RegistryImport(c, c \cup {n}) = "AssertionError"
    /\ \A name \in DOMAIN gate_out :
           IF name \in DOMAIN STRATEGY_BUILDERS
           THEN gate_out[name] \in {"True", "False"}
           ELSE gate_out[name] = "KeyError" /\ pc = "aborted"

\* should_build_strategy was called with a name that is not registered, after
\* a registered gate had answered
C7_WitnessUnregisteredName ==
    /\ "UNREGISTERED" \in DOMAIN gate_out
    /\ gate_out["UNREGISTERED"] = "KeyError"
    /\ "CALENDAR" \in DOMAIN gate_out
    /\ pc = "aborted"

(***************************************************************************)
(* Properties of event_variance, stated over the runs of SpecEvent.        *)
(***************************************************************************)
EventVarianceReturned == pc = "event_done" /\ ev_out.err = NoneVal

\* C9: event_var is never negative; when raw_event_var is negative,
\* event_var is 0, raw_event_var keeps its negative value and warning_level
\* is "severe" if |raw_event_var| / front_iv^2 > 0.10 and "mild" otherwise;
\* when raw_event_var is not negative, event_var equals it and no warning
\* level is set.
C9_ClampAndWarningLevel ==
    EventVarianceReturned =>
        /\ RLe(RInt(0), ev_out.event_var)
        /\ IF RLt(ev_out.raw_event_var, RInt(0))
           THEN /\ ev_out.event_var = RInt(0)
                /\ ev_out.warning_level
                       = IF RLt(RMul(Rat(1, 10), RSquare(ev_out.front_iv)),
                                RAbs(ev_out.raw_event_var))
                         THEN "severe" ELSE "mild"
           ELSE /\ ev_out.event_var = ev_out.raw_event_var
                /\ ev_out.warning_level = NoneVal

\* the part of C9 that holds: the clamp, the retained negative value, and a
\* warning level exactly when the raw value is negative
C9_ClampOnly ==
    EventVarianceReturned =>
        /\ RLe(RInt(0), ev_out.event_var)
        /\ IF RLt(ev_out.raw_event_var, RInt(0))
           THEN /\ ev_out.event_var = RInt(0)
                /\ ev_out.warning_level \in {"severe", "mild"}
           ELSE /\ ev_out.event_var = ev_out.raw_event_var
                /\ ev_out.warning_level = NoneVal

\* the severity the code assigns: from the returned ratio, which is
\* 252 * |raw_event_var| / front_iv^2 when front_iv^2 / 252 is above
\* TIME_EPSILON
C9_SeverityFromAnnualizedRatio ==
    (EventVarianceReturned /\ RLt(ev_out.raw_event_var, RInt(0))) =>
        /\ ev_out.warning_level
               = IF RLt(Rat(1, 10), ev_out.ratio) THEN "severe" ELSE "mild"
        /\ RLt(TIME_EPSILON, RDiv(RSquare(ev_out.front_iv), RInt(YEAR_DAYS)))
               => ev_out.ratio
                      = RDiv(RMul(RInt(YEAR_DAYS), RAbs(ev_out.raw_event_var)),
                             RSquare(ev_out.front_iv))

\* front_iv 0.2 under back1_iv 0.4 with no back2: the warning is "severe"
\* although |raw_event_var| / front_iv^2 is at most 0.10
C9_WitnessSevereBelowThreshold ==
    /\ EventVarianceReturned
    /\ ev_out.front_iv = Rat(2, 10)
    /\ ev_out.back_iv = Rat(4, 10)
    /\ ev_out.back2_iv = NoneOpt
    /\ RLt(ev_out.raw_event_var, RInt(0))
    /\ ev_out.event_var = RInt(0)
    /\ ev_out.warning_level = "severe"
    /\ RLe(RAbs(ev_out.raw_event_var),
           RMul(Rat(1, 10), RSquare(ev_out.front_iv)))

FlatTermStructure ==
    /\ EventVarianceReturned
    /\ ev_out.front_iv = Rat(1, 2)
    /\ ev_out.back_iv = Rat(1, 2)
    /\ ev_out.back2_iv = Some(Rat(1, 2))

\* C10: on a flat term structure, front_iv = back1_iv = back2_iv = 0.5,
\* raw_event_var is 0.25 to within 1e-9.
C10_FlatRawEventVarIsIvSquared ==
    FlatTermStructure =>
        \* |raw_event_var - 1/4| = p/q is at most 1e-9 iff p <= q \div 10^9
        LET diff == RAbs(RSub(ev_out.raw_event_var, Rat(1, 4)))
        IN  diff[1] <= diff[2] \div 1000000000

\* what the code returns there: the squared IV divided by 252
C10_FlatRawEventVarIsDaily ==
    (FlatTermStructure /\ ev_in.today < ev_in.event_date) =>
        /\ ev_out.raw_event_var = RDiv(Rat(1, 4), RInt(YEAR_DAYS))
        /\ ev_out.event_var = ev_out.raw_event_var
        /\ ev_out.warning_level = NoneVal

\* a flat term structure at 0.5 went through event_variance before the event
C10_WitnessFlatChains ==
    /\ FlatTermStructure
    /\ ev_in.today < ev_in.event_date
    /\ ev_out.raw_event_var = Rat(1, 1008)

\* the interpolated pre-event total variance of the run's inputs
PreEventTotalVariance ==
    TvPre(ev_out.back_iv, ev_out.back2_iv, ev_in)

\* C11: event_variance_ratio is the event's share of the total front-expiry
\* variance: it never exceeds 1.0 when the interpolated pre-event total
\* variance is non-negative.
C11_EventVarianceRatioAtMostOne ==
    (EventVarianceReturned /\ RLe(RInt(0), PreEventTotalVariance)) =>
        RLe(ev_out.event_variance_ratio, RInt(1))

\* what the code returns: the share divided by dt_event (in years), or 0 when
\* the front variance is 0
C11_RatioIsShareOverDtEvent ==
    EventVarianceReturned =>
        LET front_tv == RMul(ev_out.t_front, RSquare(ev_out.front_iv))
            share    == RDiv(RSub(front_tv, PreEventTotalVariance), front_tv)
        IN  ev_out.event_variance_ratio
                = IF RLt(RInt(0), front_tv)
                  THEN RDiv(share, ev_out.dt_event) ELSE RInt(0)

\* a flat term structure before the event: the pre-event total variance is
\* positive and the ratio is far above 1
C11_WitnessRatioAboveOne ==
    /\ FlatTermStructure
    /\ ev_in.today < ev_in.event_date
    /\ RLt(RInt(0), PreEventTotalVariance)
    /\ RLt(RInt(30), ev_out.event_variance_ratio)

(***************************************************************************)
(* The pricing kernel (analytics/bsm.py).                                  *)
(*                                                                         *)
(* A kernel value is a tagged tuple: <<"num", x>> is the float x (an exact *)
(* rational), and <<f, a, ...>> is the float that the numpy/scipy          *)
(* operation f yields on the operands a, ... .  Float operations are       *)
(* functions of their operands, so two equal terms are the same float;     *)
(* a division by zero is the term of that division (numpy yields inf or    *)
(* nan with a warning, it does not raise).  The strike is a positive real. *)
(* A call returns [err, val]: err is NoneVal and val = <<v>>, or err names *)
(* the exception raised and val = <<>>.                                    *)
(***************************************************************************)
Num(x) == <<"num", x>>

Ap(f, a) == <<f, a>>

Bin(op, a, b) == <<op, a, b>>

Returned(v) == [err |-> NoneVal, val |-> Some(v)]

Raised(e) == [err |-> e, val |-> NoneOpt]

RISK_FREE_RATE == Rat(5, 100)

DIVIDEND_YIELD == Rat(3, 10000)

\* (np.log(spot / strike) + (r - q + 0.5 * iv ** 2) * t) / (iv * np.sqrt(t))
D1(spot, strike, t, r, q, iv) ==
    Bin("/",
        Bin("+", Ap("log", Num(RDiv(spot, strike))),
                 Num(RMul(RAdd(RSub(r, q), RMul(Rat(1, 2), RSquare(iv))), t))),
        Bin("*", Num(iv), Ap("sqrt", Num(t))))

\* d1 - iv * np.sqrt(t)
D2(spot, strike, t, r, q, iv) ==
    Bin("-", D1(spot, strike, t, r, q, iv),
             Bin("*", Num(iv), Ap("sqrt", Num(t))))

\* np.exp(-x * t)
Discount(x, t) == Ap("exp", Num(RMul(RNeg(x), t)))

option_price(spot, strike, t, r, q, iv, option_type) ==
    LET d1 == D1(spot, strike, t, r, q, iv)
        d2 == D2(spot, strike, t, r, q, iv)
    IN  IF RLe(t, RInt(0))
        THEN CASE option_type = "call" ->
                      Returned(Num(RMax(RSub(spot, strike), RInt(0))))
               [] option_type = "put" ->
                      Returned(Num(RMax(RSub(strike, spot), RInt(0))))
               [] OTHER -> Raised("ValueError")
        ELSE CASE option_type = "call" ->
                      Returned(Bin("-",
                          Bin("*", Bin("*", Num(spot), Discount(q, t)),
                                   Ap("cdf", d1)),
                          Bin("*", Bin("*", Num(strike), Discount(r, t)),
                                   Ap("cdf", d2))))
               [] option_type = "put" ->
                      Returned(Bin("-",
                          Bin("*", Bin("*", Num(strike), Discount(r, t)),
                                   Ap("cdf", Ap("neg", d2))),
                          Bin("*", Bin("*", Num(spot), Discount(q, t)),
                                   Ap("cdf", Ap("neg", d1)))))
               [] OTHER -> Raised("ValueError")

\* the vectorized d1: sqrt_t is computed once, the rest is per element
D1Vec(spot_arr, strike, t, r, q, iv) ==
    [i \in 1..Len(spot_arr) |->
        Bin("/",
            Bin("+", Ap("log", Num(RDiv(spot_arr[i], strike))),
                     Num(RMul(RAdd(RSub(r, q), RMul(Rat(1, 2), RSquare(iv))),
                              t))),
            Bin("*", Num(iv), Ap("sqrt", Num(t))))]

D2Vec(spot_arr, strike, t, r, q, iv) ==
    LET d1 == D1Vec(spot_arr, strike, t, r, q, iv)
    IN  [i \in 1..Len(spot_arr) |->
            Bin("-", d1[i], Bin("*", Num(iv), Ap("sqrt", Num(t))))]

option_price_vec(spot_arr, strike, t, r, q, iv, option_type) ==
    LET d1 == D1Vec(spot_arr, strike, t, r, q, iv)
        d2 == D2Vec(spot_arr, strike, t, r, q, iv)
        N  == Len(spot_arr)
    IN  IF RLe(t, RInt(0))
        THEN CASE option_type = "call" ->
                      Returned([i \in 1..N |->
                          Num(RMax(RSub(spot_arr[i], strike), RInt(0)))])
               [] option_type = "put" ->
                      Returned([i \in 1..N |->
                          Num(RMax(RSub(strike, spot_arr[i]), RInt(0)))])
               [] OTHER -> Raised("ValueError")
        ELSE CASE option_type = "call" ->
                      Returned([i \in 1..N |-> Bin("-",
                          Bin("*", Bin("*", Num(spot_arr[i]), Discount(q, t)),
                                   Ap("cdf", d1[i])),
                          Bin("*", Bin("*", Num(strike), Discount(r, t)),
                                   Ap("cdf", d2[i])))])
               [] option_type = "put" ->
                      Returned([i \in 1..N |-> Bin("-",
                          Bin("*", Bin("*", Num(strike), Discount(r, t)),
                                   Ap("cdf", Ap("neg", d2[i]))),
                          Bin("*", Bin("*", Num(spot_arr[i]), Discount(q, t)),
                                   Ap("cdf", Ap("neg", d1[i]))))])
               [] OTHER -> Raised("ValueError")

delta(spot, strike, t, r, q, iv, option_type) ==
    LET d1 == D1(spot, strike, t, r, q, iv)
    IN  IF RLe(t, RInt(0))
        THEN CASE option_type = "call" ->
                      Returned(Num(IF RLt(strike, spot) THEN RInt(1)
                                                        ELSE RInt(0)))
               [] option_type = "put" ->
                      Returned(Num(IF RLt(spot, strike) THEN RInt(-1)
                                                        ELSE RInt(0)))
               [] OTHER -> Raised("ValueError")
        ELSE CASE option_type = "call" ->
                      Returned(Bin("*", Discount(q, t), Ap("cdf", d1)))
               [] option_type = "put" ->
                      Returned(Bin("*", Ap("neg", Discount(q, t)),
                                        Ap("cdf", Ap("neg", d1))))
               [] OTHER -> Raised("ValueError")

\* the variant of delta_vec whose expired call branch tests spot >= strike
delta_vec_at_or_above(spot_arr, strike, t, r, q, iv, option_type) ==
    LET d1 == D1Vec(spot_arr, strike, t, r, q, iv)
        N  == Len(spot_arr)
    IN  IF RLe(t, RInt(0))
        THEN CASE option_type = "call" ->
                      Returned([i \in 1..N |->
                          Num(IF RLe(strike, spot_arr[i]) THEN RInt(1)
                                                          ELSE RInt(0))])
               [] option_type = "put" ->
                      Returned([i \in 1..N |->
                          Num(IF RLt(spot_arr[i], strike) THEN RInt(-1)
                                                          ELSE RInt(0))])
               [] OTHER -> Raised("ValueError")
        ELSE CASE option_type = "call" ->
                      Returned([i \in 1..N |->
                          Bin("*", Discount(q, t), Ap("cdf", d1[i]))])
               [] option_type = "put" ->
                      Returned([i \in 1..N |->
                          Bin("*", Ap("neg", Discount(q, t)),
                                   Ap("cdf", Ap("neg", d1[i])))])
               [] OTHER -> Raised("ValueError")

delta_vec(spot_arr, strike, t, r, q, iv, option_type) ==
    LET d1 == D1Vec(spot_arr, strike, t, r, q, iv)
        N  == Len(spot_arr)
    IN  IF RLe(t, RInt(0))
        THEN CASE option_type = "call" ->
                      Returned([i \in 1..N |->
                          Num(IF RLt(strike, spot_arr[i]) THEN RInt(1)
                                                          ELSE RInt(0))])
               [] option_type = "put" ->
                      Returned([i \in 1..N |->
                          Num(IF RLt(spot_arr[i], strike) THEN RInt(-1)
                                                          ELSE RInt(0))])
               [] OTHER -> Raised("ValueError")
        ELSE CASE option_type = "call" ->
                      Returned([i \in 1..N |->
                          Bin("*", Discount(q, t), Ap("cdf", d1[i]))])
               [] option_type = "put" ->
                      Returned([i \in 1..N |->
                          Bin("*", Ap("neg", Discount(q, t)),
                                   Ap("cdf", Ap("neg", d1[i])))])
               [] OTHER -> Raised("ValueError")

\* gamma never looks at option_type
gamma(spot, strike, t, r, q, iv, option_type) ==
    LET d1 == D1(spot, strike, t, r, q, iv)
    IN  IF RLe(t, RInt(0)) THEN Returned(Num(RInt(0)))
        ELSE Returned(Bin("/", Bin("*", Discount(q, t), Ap("pdf", d1)),
                               Bin("*", Num(RMul(spot, iv)),
                                        Ap("sqrt", Num(t)))))

gamma_vec(spot_arr, strike, t, r, q, iv, option_type) ==
    LET d1 == D1Vec(spot_arr, strike, t, r, q, iv)
        N  == Len(spot_arr)
    IN  IF RLe(t, RInt(0)) THEN Returned([i \in 1..N |-> Num(RInt(0))])
        ELSE Returned([i \in 1..N |->
                 Bin("/", Bin("*", Discount(q, t), Ap("pdf", d1[i])),
                          Bin("*", Num(RMul(spot_arr[i], iv)),
                                   Ap("sqrt", Num(t))))])

\* vega never looks at option_type
vega(spot, strike, t, r, q, iv, option_type) ==
    LET d1 == D1(spot, strike, t, r, q, iv)
    IN  IF RLe(t, RInt(0)) THEN Returned(Num(RInt(0)))
        ELSE Returned(Bin("*", Bin("*", Bin("*", Num(spot), Discount(q, t)),
                                        Ap("pdf", d1)),
                               Ap("sqrt", Num(t))))

\* theta returns 0.0 at t <= 0 before it looks at option_type
theta(spot, strike, t, r, q, iv, option_type) ==
    LET d1 == D1(spot, strike, t, r, q, iv)
        d2 == D2(spot, strike, t, r, q, iv)
        sqrt_t == Ap("sqrt", Num(t))
        decay == Bin("/",
                     Ap("neg", Bin("*", Bin("*", Bin("*", Num(spot),
                                                     Discount(q, t)),
                                             Ap("pdf", d1)),
                                    Num(iv))),
                     Bin("*", Num(RInt(2)), sqrt_t))
        carry(x, k, d) == Bin("*", Bin("*", Num(RMul(x, k)), Discount(x, t)),
                                   Ap("cdf", d))
    IN  IF RLe(t, RInt(0)) THEN Returned(Num(RInt(0)))
        ELSE CASE option_type = "call" ->
                      Returned(Bin("/",
                          Bin("+", Bin("-", decay, carry(r, strike, d2)),
                                   carry(q, spot, d1)),
                          Num(RInt(365))))
               [] option_type = "put" ->
                      Returned(Bin("/",
                          Bin("-", Bin("+", decay,
                                       carry(r, strike, Ap("neg", d2))),
                                   carry(q, spot, Ap("neg", d1))),
                          Num(RInt(365))))
               [] OTHER -> Raised("ValueError")

(***************************************************************************)
(* The payoff engine (strategies/payoff.py, data/filters.py).              *)
(*                                                                         *)
(* A chain is a sequence of rows [expiry, option_type, strike, mid,        *)
(* spread, iv]; expiries are day numbers, strikes integers, the other      *)
(* fields rationals.  A leg's expiry is a day number here.                 *)
(***************************************************************************)
CONTRACT_MULTIPLIER == 100

SLIPPAGE_PCT == Rat(10, 100)

\* config.IV_SCENARIOS: a shift is a tag or a relative change <<"rel", x>>
IV_SCENARIOS ==
    [base_crush |-> [front |-> <<"collapse_to_back">>,
                     back  |-> <<"unchanged">>],
     hard_crush |-> [front |-> <<"rel", Rat(-35, 100)>>,
                     back  |-> <<"rel", Rat(-10, 100)>>],
     expansion  |-> [front |-> <<"rel", Rat(10, 100)>>,
                     back  |-> <<"rel", Rat(5, 100)>>]]

\* the lookup key of a chain row or of a leg
QuoteKey(x) == <<x.expiry, x.option_type, x.strike>>

\* _build_lookup: a later row with the same key replaces an earlier one
_build_lookup(chain) ==
    [key \in {QuoteKey(chain[i]) : i \in 1..Len(chain)} |->
        LET last == CHOOSE i \in 1..Len(chain) :
                        /\ QuoteKey(chain[i]) = key
                        /\ \A j \in 1..Len(chain) :
                               QuoteKey(chain[j]) = key => j <= i
        IN  [mid |-> chain[last].mid, spread |-> chain[last].spread,
             iv |-> chain[last].iv]]

\* the variant of _get_leg_data that answers a missing key with a zero quote
\* in place of the ValueError
_get_leg_data_zero_filled(lookup, leg) ==
    IF QuoteKey(leg) \in DOMAIN lookup
    THEN [err |-> NoneVal, data |-> lookup[QuoteKey(leg)]]
    ELSE [err |-> NoneVal,
          data |-> [mid |-> RInt(0), spread |-> RInt(0), iv |-> RInt(0)]]

_get_leg_data(lookup, leg) ==
    IF QuoteKey(leg) \in DOMAIN lookup
    THEN [err |-> NoneVal, data |-> lookup[QuoteKey(leg)]]
    ELSE [err |-> "ValueError",
          data |-> [mid |-> RInt(0), spread |-> RInt(0), iv |-> RInt(0)]]

\* filters.execution_price on a float
execution_price(mid, spread, side, slippage_pct) ==
    LET adjustment == RMul(RMul(Rat(1, 2), spread), slippage_pct)
    IN  IF side = "buy" THEN RAdd(mid, adjustment) ELSE RSub(mid, adjustment)

\* filters.execution_price and execution_price_vec on a priced value
ExecutionPriceOf(price, spread, side, slippage_pct) ==
    LET adjustment == Num(RMul(RMul(Rat(1, 2), spread), slippage_pct))
    IN  IF side = "buy" THEN Bin("+", price, adjustment)
                        ELSE Bin("-", price, adjustment)

\* _entry_cost: the first leg without a quote raises, else the signed total
RECURSIVE _entry_cost(_, _, _)
_entry_cost(legs, lookup, slippage_pct) ==
    IF legs = <<>> THEN [err |-> NoneVal, total |-> RInt(0)]
    ELSE LET n     == Len(legs)
             leg   == legs[n]
             rest  == _entry_cost(SubSeq(legs, 1, n - 1), lookup, slippage_pct)
             found == _get_leg_data(lookup, leg)
             price == execution_price(found.data.mid, found.data.spread,
                                      leg.side, slippage_pct)
             leg_value == RMul(RMul(price, RInt(leg.qty)),
                               RInt(CONTRACT_MULTIPLIER))
         IN  IF rest.err # NoneVal THEN rest
             ELSE IF found.err # NoneVal
                  THEN [err |-> found.err, total |-> RInt(0)]
                  ELSE [err |-> NoneVal,
                        total |-> IF leg.side = "buy"
                                  THEN RAdd(rest.total, leg_value)
                                  ELSE RSub(rest.total, leg_value)]

\* _time_remaining: max((pd.bdate_range(event_date, expiry).size - 1) / 252.0,
\* TIME_EPSILON)
_time_remaining(event_date, expiry) ==
    RMax(Rat(Cardinality({d \in event_date..expiry : IsBusinessDay(d)}) - 1,
             YEAR_DAYS),
         TIME_EPSILON)

\* _expiry_atm_iv: per expiry, the mean IV of the rows at the strike nearest
\* to spot
_expiry_atm_iv(chain, spot) ==
    [e \in {chain[i].expiry : i \in 1..Len(chain)} |->
        LET subset == SelectSeq(chain, LAMBDA row : row.expiry = e)
            atm_strike == CHOOSE k \in {subset[i].strike : i \in 1..Len(subset)} :
                              \A i \in 1..Len(subset) :
                                  Abs(k - spot) <= Abs(subset[i].strike - spot)
            atm == SelectSeq(subset, LAMBDA row : row.strike = atm_strike)
        IN  RDiv(RSeqSum([i \in 1..Len(atm) |-> atm[i].iv]), RInt(Len(atm)))]

\* the variant of _post_iv without its two floors at TIME_EPSILON
_post_iv_unfloored(expiry, front_expiry, back_expiry, scenario, front_iv, back_iv, leg_iv, expiry_atm_iv) ==
    LET atm_iv == IF expiry \in DOMAIN expiry_atm_iv
                  THEN expiry_atm_iv[expiry] ELSE leg_iv
        base_atm == IF expiry = front_expiry THEN front_iv ELSE back_iv
        shift == IF expiry = front_expiry THEN IV_SCENARIOS[scenario].front
                                          ELSE IV_SCENARIOS[scenario].back
        target_atm ==
            IF scenario \notin DOMAIN IV_SCENARIOS THEN base_atm
            ELSE CASE shift[1] = "collapse_to_back" -> back_iv
                   [] shift[1] = "unchanged" -> base_atm
                   [] OTHER -> RMul(base_atm, RAdd(RInt(1), shift[2]))
    IN  IF atm_iv = RInt(0) THEN RInt(0)
        ELSE RMul(leg_iv, RDiv(target_atm, atm_iv))

_post_iv(expiry, front_expiry, back_expiry, scenario, front_iv, back_iv, leg_iv, expiry_atm_iv) ==
    LET atm_iv == IF expiry \in DOMAIN expiry_atm_iv
                  THEN expiry_atm_iv[expiry] ELSE leg_iv
        base_atm == IF expiry = front_expiry THEN front_iv ELSE back_iv
        shift == IF expiry = front_expiry THEN IV_SCENARIOS[scenario].front
                                          ELSE IV_SCENARIOS[scenario].back
        target_atm ==
            IF scenario \notin DOMAIN IV_SCENARIOS THEN base_atm
            ELSE CASE shift[1] = "collapse_to_back" -> back_iv
                   [] shift[1] = "unchanged" -> base_atm
                   [] OTHER -> RMul(base_atm, RAdd(RInt(1), shift[2]))
    IN  RMax(RMul(leg_iv, RDiv(target_atm, RMax(atm_iv, TIME_EPSILON))),
             TIME_EPSILON)

\* one leg's signed exit prices over new_spots, in strategy_pnl_vec's loop
LegExitVec(leg, data, new_spots, a, expiry_atm_iv) ==
    LET t_remaining == _time_remaining(a.event_date, leg.expiry)
        post_iv == _post_iv(leg.expiry, a.front_expiry, a.back_expiry,
                            a.scenario, a.front_iv, a.back_iv, data.iv,
                            expiry_atm_iv)
        prices == option_price_vec(new_spots, RInt(leg.strike), t_remaining,
                                   RISK_FREE_RATE, DIVIDEND_YIELD, post_iv,
                                   leg.option_type).val[1]
        exit_side == IF leg.side = "buy" THEN "sell" ELSE "buy"
        sign == IF leg.side = "buy" THEN RInt(1) ELSE RInt(-1)
    IN  [i \in 1..Len(new_spots) |->
            Bin("*", Bin("*", Bin("*", Num(sign),
                                       ExecutionPriceOf(prices[i], data.spread,
                                                        exit_side,
                                                        a.slippage_pct)),
                              Num(RInt(leg.qty))),
                     Num(RInt(CONTRACT_MULTIPLIER)))]

\* exit_values after the loop over the legs
RECURSIVE ExitValuesVec(_, _, _, _, _)
ExitValuesVec(legs, lookup, new_spots, a, expiry_atm_iv) ==
    IF legs = <<>> THEN [i \in 1..Len(new_spots) |-> Num(RInt(0))]
    ELSE LET n    == Len(legs)
             acc  == ExitValuesVec(SubSeq(legs, 1, n - 1), lookup, new_spots,
                                   a, expiry_atm_iv)
             data == _get_leg_data(lookup, legs[n]).data
             leg_values == LegExitVec(legs[n], data, new_spots, a,
                                      expiry_atm_iv)
         IN  [i \in 1..Len(new_spots) |-> Bin("+", acc[i], leg_values[i])]

\* strategy_pnl_vec(strategy, chain, spot, moves, ...): a holds the arguments
strategy_pnl_vec(a) ==
    LET lookup == _build_lookup(a.chain)
        expiry_atm_iv == _expiry_atm_iv(a.chain, a.spot)
        entry_cost == _entry_cost(a.strategy.legs, lookup, a.slippage_pct)
        new_spots == [i \in 1..Len(a.moves) |->
                         RMul(RInt(a.spot), RAdd(RInt(1), a.moves[i]))]
        exit_values == ExitValuesVec(a.strategy.legs, lookup, new_spots, a,
                                     expiry_atm_iv)
    IN  IF entry_cost.err # NoneVal THEN Raised(entry_cost.err)
        ELSE Returned([i \in 1..Len(a.moves) |->
                 Bin("-", exit_values[i], Num(entry_cost.total))])

\* _exit_value at one new spot
RECURSIVE _exit_value(_, _, _, _, _)
_exit_value(legs, lookup, spot, a, expiry_atm_iv) ==
    IF legs = <<>> THEN Num(RInt(0))
    ELSE LET n    == Len(legs)
             leg  == legs[n]
             total == _exit_value(SubSeq(legs, 1, n - 1), lookup, spot, a,
                                  expiry_atm_iv)
             data == _get_leg_data(lookup, leg).data
             t_remaining == _time_remaining(a.event_date, leg.expiry)
             post_iv == _post_iv(leg.expiry, a.front_expiry, a.back_expiry,
                                 a.scenario, a.front_iv, a.back_iv, data.iv,
                                 expiry_atm_iv)
             price == option_price(spot, RInt(leg.strike), t_remaining,
                                   RISK_FREE_RATE, DIVIDEND_YIELD, post_iv,
                                   leg.option_type).val[1]
             exit_side == IF leg.side = "buy" THEN "sell" ELSE "buy"
             leg_value ==
                 Bin("*", Bin("*", ExecutionPriceOf(price, data.spread,
                                                    exit_side, a.slippage_pct),
                                   Num(RInt(leg.qty))),
                          Num(RInt(CONTRACT_MULTIPLIER)))
         IN  IF leg.side = "buy" THEN Bin("+", total, leg_value)
                                 ELSE Bin("-", total, leg_value)

\* strategy_pnl: the entry cost is taken before the loop over the moves
strategy_pnl(a) ==
    LET lookup == _build_lookup(a.chain)
        expiry_atm_iv == _expiry_atm_iv(a.chain, a.spot)
        entry_cost == _entry_cost(a.strategy.legs, lookup, a.slippage_pct)
    IN  IF entry_cost.err # NoneVal THEN Raised(entry_cost.err)
        ELSE Returned([i \in 1..Len(a.moves) |->
                 Bin("-",
                     _exit_value(a.strategy.legs, lookup,
                                 RMul(RInt(a.spot), RAdd(RInt(1), a.moves[i])),
                                 a, expiry_atm_iv),
                     Num(entry_cost.total))])

---------------------------------------------------------------------------
(***************************************************************************)
(* The payoff engine as a state machine: one set of arguments, on which    *)
(* strategy_pnl_vec and strategy_pnl are each called once.                 *)
(***************************************************************************)
PayLegUniverse ==
    { Leg(t, 100, 1, sd, e) : t \in {"call", "put"}, sd \in {"buy", "sell"},
                              e \in {17, 25} }

PayLegTuples == UNION { [1..n -> PayLegUniverse] : n \in 0..MaxLegs }

Row(e, t, k, mid, spread, iv) ==
    [expiry |-> e, option_type |-> t, strike |-> k, mid |-> mid,
     spread |-> spread, iv |-> iv]

FrontRows ==
    << Row(17, "call", 100, Rat(5, 1), Rat(1, 5), Rat(1, 2)),
       Row(17, "put", 100, Rat(9, 2), Rat(1, 5), Rat(3, 5)),
       Row(17, "call", 105, Rat(3, 1), Rat(1, 5), Rat(2, 5)) >>

BackRows ==
    << Row(25, "call", 100, Rat(6, 1), Rat(3, 10), Rat(2, 5)),
       Row(25, "put", 100, Rat(11, 2), Rat(3, 10), Rat(2, 5)) >>

\* the front call at 100 quoted twice, with different mids
DuplicateRows ==
    << Row(17, "call", 100, Rat(4, 1), Rat(1, 5), Rat(1, 2)) >>

PayChains ==
    { <<>>, FrontRows, FrontRows \o BackRows,
      FrontRows \o BackRows \o DuplicateRows }

PayMoves == { <<>>, << Rat(-1, 10), Rat(1, 10) >> }

PayoffInputs ==
    { [strategy |-> Strategy("candidate", legs), chain |-> chain,
       spot |-> 100, moves |-> moves, front_expiry |-> 17,
       back_expiry |-> 25, event_date |-> 14, front_iv |-> Rat(1, 2),
       back_iv |-> Rat(2, 5), slippage_pct |-> SLIPPAGE_PCT,
       scenario |-> scenario] :
      legs \in PayLegTuples, chain \in PayChains, moves \in PayMoves,
      scenario \in DOMAIN IV_SCENARIOS }

StrategyPnlVecCall ==
    /\ pc = "payoff"
    /\ "strategy_pnl_vec" \notin pay_out.called
    /\ pay_out' = [pay_out EXCEPT !.called = @ \cup {"strategy_pnl_vec"},
                                  !.vec = Some(strategy_pnl_vec(pay_in))]
    /\ UNCHANGED <<pc, pay_in, scoreVars, riskVars, gateVars, eventVars,
                   kernelVars, regimeVars, simVars, runVars, toolVars>>

StrategyPnlCall ==
    /\ pc = "payoff"
    /\ "strategy_pnl" \notin pay_out.called
    /\ pay_out' = [pay_out EXCEPT !.called = @ \cup {"strategy_pnl"},
                                  !.scalar = Some(strategy_pnl(pay_in))]
    /\ UNCHANGED <<pc, pay_in, scoreVars, riskVars, gateVars, eventVars,
                   kernelVars, regimeVars, simVars, runVars, toolVars>>

InitPayoff ==
    /\ pc = "payoff"
    /\ pay_in \in PayoffInputs
    /\ pay_out = [called |-> {}, vec |-> NoneOpt, scalar |-> NoneOpt]
    /\ ScoreIdle /\ RiskIdle /\ GateIdle /\ EventIdle
    /\ KernelIdle /\ RegimeIdle /\ SimIdle /\ RunIdle /\ ToolIdle

NextPayoff == StrategyPnlVecCall \/ StrategyPnlCall

SpecPayoff == InitPayoff /\ [][NextPayoff]_vars

(***************************************************************************)
(* C12.  Every leg of the strategy must resolve to a quote of the chain by *)
(* its (expiry, option_type, strike) key: when some leg has no quote,      *)
(* strategy_pnl_vec and strategy_pnl raise an error and return no P&L      *)
(* array at all, and when every leg has one they return one P&L per move.  *)
(***************************************************************************)
SomeLegUnquoted ==
    \E i \in 1..Len(pay_in.strategy.legs) :
        \A j \in 1..Len(pay_in.chain) :
            QuoteKey(pay_in.chain[j]) # QuoteKey(pay_in.strategy.legs[i])

PnlCallSound(out) ==
    out # NoneOpt =>
        IF SomeLegUnquoted
        THEN out[1].err = "ValueError" /\ out[1].val = NoneOpt
        ELSE /\ out[1].err = NoneVal
             /\ Len(out[1].val[1]) = Len(pay_in.moves)

C12_MissingQuoteFailsWholeCall ==
    pc = "payoff" => PnlCallSound(pay_out.vec) /\ PnlCallSound(pay_out.scalar)

\* a two-leg strategy whose second leg only is missing from the chain, with
\* moves to price, after both functions were called
C12_WitnessSecondLegUnquoted ==
    /\ pc = "payoff"
    /\ pay_out.called = {"strategy_pnl_vec", "strategy_pnl"}
    /\ Len(pay_in.strategy.legs) = 2
    /\ pay_in.moves # <<>>
    /\ pay_in.chain = FrontRows
    /\ pay_in.strategy.legs[1].expiry = 17
    /\ pay_in.strategy.legs[2].expiry = 25
    /\ pay_out.vec[1].err = "ValueError"
    /\ pay_out.scalar[1].err = "ValueError"

---------------------------------------------------------------------------
(***************************************************************************)
(* The pricing kernel as a state machine: one set of arguments, on which   *)
(* each function is called once, the scalar functions once per spot of the *)
(* array.  k_out maps the name of a called function to its outcome (for a  *)
(* scalar function, the sequence of its outcomes over the array).          *)
(***************************************************************************)
MaxSpots == 2

KernelSpots == { RInt(95), RInt(100), RInt(105) }

KernelInputs ==
    { [spot_arr |-> spot_arr, strike |-> RInt(100), t |-> t,
       r |-> RISK_FREE_RATE, q |-> DIVIDEND_YIELD, iv |-> iv,
       option_type |-> option_type] :
      spot_arr \in UNION { [1..n -> KernelSpots] : n \in 1..MaxSpots },
      t \in { Rat(-1, 252), RInt(0), Rat(3, 252) },
      iv \in { Rat(-1, 5), RInt(0), Rat(1, 5) },
      option_type \in { "call", "put", "straddle" } }

\* the scalar function f at every spot of the array
PerSpot(f(_, _, _, _, _, _, _), a) ==
    [i \in 1..Len(a.spot_arr) |->
        f(a.spot_arr[i], a.strike, a.t, a.r, a.q, a.iv, a.option_type)]

Vectorized(f(_, _, _, _, _, _, _), a) ==
    f(a.spot_arr, a.strike, a.t, a.r, a.q, a.iv, a.option_type)

PriceCall ==
    /\ pc = "kernel"
    /\ "option_price" \notin DOMAIN k_out
    /\ k_out' = k_out @@ ("option_price" :> PerSpot(option_price, k_in))
                      @@ ("option_price_vec" :>
                              Vectorized(option_price_vec, k_in))
    /\ UNCHANGED <<pc, k_in, scoreVars, riskVars, gateVars, eventVars,
                   payoffVars, regimeVars, simVars, runVars, toolVars>>

DeltaCall ==
    /\ pc = "kernel"
    /\ "delta" \notin DOMAIN k_out
    /\ k_out' = k_out @@ ("delta" :> PerSpot(delta, k_in))
                      @@ ("delta_vec" :> Vectorized(delta_vec, k_in))
    /\ UNCHANGED <<pc, k_in, scoreVars, riskVars, gateVars, eventVars,
                   payoffVars, regimeVars, simVars, runVars, toolVars>>

GammaCall ==
    /\ pc = "kernel"
    /\ "gamma" \notin DOMAIN k_out
    /\ k_out' = k_out @@ ("gamma" :> PerSpot(gamma, k_in))
                      @@ ("gamma_vec" :> Vectorized(gamma_vec, k_in))
    /\ UNCHANGED <<pc, k_in, scoreVars, riskVars, gateVars, eventVars,
                   payoffVars, regimeVars, simVars, runVars, toolVars>>

VegaCall ==
    /\ pc = "kernel"
    /\ "vega" \notin DOMAIN k_out
    /\ k_out' = k_out @@ ("vega" :> PerSpot(vega, k_in))
    /\ UNCHANGED <<pc, k_in, scoreVars, riskVars, gateVars, eventVars,
                   payoffVars, regimeVars, simVars, runVars, toolVars>>

ThetaCall ==
    /\ pc = "kernel"
    /\ "theta" \notin DOMAIN k_out
    /\ k_out' = k_out @@ ("theta" :> PerSpot(theta, k_in))
    /\ UNCHANGED <<pc, k_in, scoreVars, riskVars, gateVars, eventVars,
                   payoffVars, regimeVars, simVars, runVars, toolVars>>

InitKernel ==
    /\ pc = "kernel"
    /\ k_in \in KernelInputs
    /\ k_out = <<>>
    /\ ScoreIdle /\ RiskIdle /\ GateIdle /\ EventIdle
    /\ PayoffIdle /\ RegimeIdle /\ SimIdle /\ RunIdle /\ ToolIdle

NextKernel == PriceCall \/ DeltaCall \/ GammaCall \/ VegaCall \/ ThetaCall

SpecKernel == InitKernel /\ [][NextKernel]_vars

ScalarFunctions == { "option_price", "delta", "gamma", "vega", "theta" }

\* the vectorized counterpart of a scalar kernel function, where one exists
VecOf == [ option_price |-> "option_price_vec", delta |-> "delta_vec",
           gamma |-> "gamma_vec" ]

(***************************************************************************)
(* C13.  Called with an option type that is neither "call" nor "put",      *)
(* every kernel function (price, delta, gamma, vega, theta, scalar and     *)
(* vectorized) raises the invalid-argument error and returns no number,    *)
(* whatever the other arguments are, t <= 0 and vol <= 0 included.         *)
(***************************************************************************)
RaisedAt(f) ==
    IF f \in ScalarFunctions
    THEN \A i \in 1..Len(k_out[f]) : k_out[f][i].err = "ValueError"
    ELSE k_out[f].err = "ValueError"

C13_InvalidTypeAlwaysRaises ==
    (pc = "kernel" /\ k_in.option_type \notin {"call", "put"}) =>
        \A f \in DOMAIN k_out : RaisedAt(f)

\* the part of C13 that the code has: price and delta, scalar and vectorized,
\* raise for an invalid type at every t and vol
C13_PriceAndDeltaRaise ==
    (pc = "kernel" /\ k_in.option_type \notin {"call", "put"}) =>
        \A f \in DOMAIN k_out \cap
                 {"option_price", "option_price_vec", "delta", "delta_vec"} :
            RaisedAt(f)

\* gamma, gamma_vec and vega return a number for an invalid type at t > 0,
\* and theta returns 0.0 for it at t <= 0
C13_WitnessNumberForInvalidType ==
    /\ pc = "kernel"
    /\ k_in.option_type = "straddle"
    /\ DOMAIN k_out = ScalarFunctions \cup {VecOf[f] : f \in DOMAIN VecOf}
    /\ \/ /\ RLt(RInt(0), k_in.t)
          /\ k_out["gamma"][1].err = NoneVal
          /\ k_out["gamma_vec"].err = NoneVal
          /\ k_out["vega"][1].err = NoneVal
          /\ k_out["theta"][1].err = "ValueError"
       \/ /\ RLe(k_in.t, RInt(0))
          /\ k_out["theta"][1] = Returned(Num(RInt(0)))

(***************************************************************************)
(* C14.  Each vectorized kernel function (option_price_vec, delta_vec,     *)
(* gamma_vec) returns at every index the value the scalar function returns *)
(* for that spot, and raises exactly when the scalar function raises; this *)
(* covers the branches t <= 0 and vol <= 0.                                *)
(***************************************************************************)
VecAgreesWithScalar(f) ==
    LET scalar == k_out[f]
        vec    == k_out[VecOf[f]]
    IN  /\ \A i \in 1..Len(scalar) : scalar[i].err = vec.err
        /\ vec.err = NoneVal =>
               /\ Len(vec.val[1]) = Len(scalar)
               /\ \A i \in 1..Len(scalar) : vec.val[1][i] = scalar[i].val[1]

C14_VectorizedEqualsScalar ==
    pc = "kernel" =>
        \A f \in DOMAIN k_out \cap DOMAIN VecOf : VecAgreesWithScalar(f)

\* an expired call priced on an array holding a spot equal to the strike and
\* a spot above it: the step of delta is taken on both sides of its edge
C14_WitnessExpiredAtTheStrike ==
    /\ pc = "kernel"
    /\ DOMAIN VecOf \subseteq DOMAIN k_out
    /\ k_in.option_type = "call"
    /\ k_in.t = RInt(0)
    /\ k_in.spot_arr = << RInt(100), RInt(105) >>
    /\ k_out["delta_vec"].val[1] = << Num(RInt(0)), Num(RInt(1)) >>
    /\ k_out["option_price_vec"].val[1] = << Num(RInt(0)), Num(RInt(5)) >>

\* the smooth branch at zero volatility: both paths divide by iv * sqrt(t)
C14_WitnessZeroVol ==
    /\ pc = "kernel"
    /\ DOMAIN VecOf \subseteq DOMAIN k_out
    /\ k_in.iv = RInt(0)
    /\ RLt(RInt(0), k_in.t)
    /\ k_in.option_type = "put"
    /\ k_out["gamma_vec"].err = NoneVal

(***************************************************************************)
(* The regime classifier (regime.py) and the alignment scorer              *)
(* (alignment.py).  Snapshot values are rationals; gex_net, gex_abs and    *)
(* the strategies' net gammas are integers in one unit each.               *)
(***************************************************************************)
VolLabel(ratio_p75) ==
    IF RLt(ratio_p75, Rat(85, 100)) THEN "Tail Underpriced"
    ELSE IF RLt(Rat(110, 100), ratio_p75) THEN "Tail Overpriced"
    ELSE "Fairly Priced"

EventLabel(ev_ratio) ==
    IF RLt(Rat(70, 100), ev_ratio) THEN "Pure Binary Event"
    ELSE IF RLt(Rat(50, 100), ev_ratio) THEN "Event-Dominant"
    ELSE "Distributed Volatility"

TermLabel(spread) ==
    IF RLt(Rat(20, 100), spread) THEN "Extreme Front Premium"
    ELSE IF RLt(Rat(10, 100), spread) THEN "Elevated Front Premium"
    ELSE IF RLt(spread, Rat(-5, 100)) THEN "Inverted Structure"
    ELSE "Normal Structure"

\* abs(gex_net) / gex_abs if gex_abs > 0 else 0
GexRatio(gex_net, gex_abs) ==
    IF gex_abs > 0 THEN Rat(Abs(gex_net), gex_abs) ELSE RInt(0)

\* the variant of the gamma label whose threshold is inclusive
GammaLabelInclusive(gex_net, gex_ratio) ==
    IF gex_net < 0 /\ RLe(Rat(7, 10), gex_ratio) THEN "Amplified Move Regime"
    ELSE IF gex_net > 0 /\ RLe(Rat(7, 10), gex_ratio) THEN "Pin Risk Regime"
    ELSE "Neutral Gamma"

GammaLabel(gex_net, gex_ratio) ==
    IF gex_net < 0 /\ RLt(Rat(7, 10), gex_ratio) THEN "Amplified Move Regime"
    ELSE IF gex_net > 0 /\ RLt(Rat(7, 10), gex_ratio) THEN "Pin Risk Regime"
    ELSE "Neutral Gamma"

CompositeLabel(vol_label, gamma_label, ev_ratio) ==
    IF /\ vol_label = "Tail Underpriced"
       /\ gamma_label = "Amplified Move Regime"
       /\ RLt(Rat(6, 10), ev_ratio)
    THEN "Convex Breakout Setup"
    ELSE IF vol_label = "Tail Overpriced" /\ gamma_label = "Pin Risk Regime"
    THEN "Premium Harvest Setup"
    ELSE "Mixed / Transitional Setup"

\* classify_regime: the dict it returns (its keys are the fields other than
\* err), or the ZeroDivisionError of implied_move / historical_p75
classify_regime(s) ==
    IF s.historical_p75 = RInt(0) THEN [err |-> "ZeroDivisionError"]
    ELSE
    LET ratio_p75   == RDiv(s.implied_move, s.historical_p75)
        vol_label   == VolLabel(ratio_p75)
        ev_ratio    == s.event_variance_ratio
        gex_ratio   == GexRatio(s.gex_net, s.gex_abs)
        gamma_label == GammaLabel(s.gex_net, gex_ratio)
        vol_conf    == RMin(RDiv(RAbs(RSub(ratio_p75, RInt(1))), Rat(20, 100)),
                            RInt(1))
        gamma_conf  == IF s.gex_abs > 0
                       THEN RMin(Rat(Abs(s.gex_net), s.gex_abs), RInt(1))
                       ELSE RInt(0)
        event_conf  == RMin(RDiv(ev_ratio, Rat(8, 10)), RInt(1))
    IN  [err                   |-> NoneVal,
         vol_regime            |-> vol_label,
         event_regime          |-> EventLabel(ev_ratio),
         term_structure_regime |-> TermLabel(RSub(s.front_iv, s.back_iv)),
         gamma_regime          |-> gamma_label,
         composite_regime      |-> CompositeLabel(vol_label, gamma_label,
                                                  ev_ratio),
         vol_ratio             |-> ratio_p75,
         gex_ratio             |-> gex_ratio,
         vol_confidence        |-> vol_conf,
         gamma_confidence      |-> gamma_conf,
         event_confidence      |-> event_conf,
         confidence            |-> RAdd(RAdd(RMul(Rat(4, 10), vol_conf),
                                             RMul(Rat(3, 10), gamma_conf)),
                                        RMul(Rat(3, 10), event_conf))]

\* round(x, 3)
Round3(x) ==
    LET y    == RMul(x, RInt(1000))
        lo   == RFloor(y)
        frac == RSub(y, RInt(lo))
        half == Rat(1, 2)
        n    == IF RLt(frac, half) THEN lo
                ELSE IF RLt(half, frac) THEN lo + 1
                ELSE IF lo % 2 = 0 THEN lo ELSE lo + 1
    IN  Rat(n, 1000)

\* _scaled_sign
_scaled_sign(value, desired_positive, scale) ==
    IF scale = RInt(0) THEN Rat(1, 2)
    ELSE LET normalized == RMax(RMin(RDiv(value, scale), RInt(1)), RInt(-1))
         IN  IF desired_positive
             THEN RDiv(RAdd(normalized, RInt(1)), RInt(2))
             ELSE RDiv(RSub(RInt(1), normalized), RInt(2))

\* regime.get(key, default)
DictGet(d, key, default) == IF key \in DOMAIN d THEN d[key] ELSE default

\* compute_alignment: gamma_bias = regime.get("gamma_bias", "neutral")
GammaBias(regime) == DictGet(regime, "gamma_bias", "neutral")

\* compute_alignment, axis 1: alignment_breakdown["gamma_alignment"]
GammaAlignment(net_gamma, regime, median_abs_gamma) ==
    LET gamma_bias == GammaBias(regime)
        gamma_score ==
            IF gamma_bias = "neutral" THEN Rat(1, 2)
            ELSE IF gamma_bias = "long_gamma"
                 THEN _scaled_sign(RInt(net_gamma), TRUE, median_abs_gamma)
                 ELSE _scaled_sign(RInt(net_gamma), FALSE, median_abs_gamma)
    IN  Round3(gamma_score)

\* float(np.median(xs)) of a non-empty list of integers
Median(xs) ==
    LET sorted == SortAsc(xs)
        n      == Len(xs)
    IN  IF n % 2 = 1 THEN RInt(sorted[(n + 1) \div 2])
        ELSE Rat(sorted[n \div 2] + sorted[n \div 2 + 1], 2)

\* compute_all_alignments: the gamma alignment written to each strategy
compute_all_alignments(net_gammas, regime) ==
    LET gammas == [i \in 1..Len(net_gammas) |-> Abs(net_gammas[i])]
        median_abs_gamma == IF gammas # <<>> THEN Median(gammas) ELSE RInt(1)
    IN  [i \in 1..Len(net_gammas) |->
            GammaAlignment(net_gammas[i], regime, median_abs_gamma)]

---------------------------------------------------------------------------
(***************************************************************************)
(* The regime stage of main(): classify_regime(snapshot), then             *)
(* compute_all_alignments(ranked, regime).                                 *)
(***************************************************************************)
GexPairs ==
    { <<-100, 100>>, <<-71, 100>>, <<-70, 100>>, <<-50, 100>>, <<0, 0>>,
      <<0, 100>>, <<70, 100>>, <<71, 100>>, <<100, 100>> }

\* event_variance returns ratios below 0 and above 1 as well
EventVarianceRatios ==
    { Rat(-1, 2), RInt(0), Rat(55, 100), Rat(4, 5), Rat(63, 2) }

RegimeSnapshots ==
    { [implied_move |-> Rat(8, 100), historical_p75 |-> p75,
       event_variance_ratio |-> evr, front_iv |-> Rat(1, 2),
       back_iv |-> Rat(2, 5), gex_net |-> gex[1], gex_abs |-> gex[2]] :
      p75 \in { RInt(0), Rat(1, 10), Rat(8, 100), Rat(5, 100) },
      evr \in EventVarianceRatios, gex \in GexPairs }

NetGammas == { -1, 0, 2 }

RankedNetGammas == UNION { [1..n -> NetGammas] : n \in 1..MaxBatch }

ClassifyRegimeCall ==
    /\ pc = "regime"
    /\ rg_out' = classify_regime(rg_in.snapshot)
    /\ pc' = IF rg_out'.err = NoneVal THEN "alignment" ELSE "regime_failed"
    /\ UNCHANGED <<rg_in, al_out, scoreVars, riskVars, gateVars, eventVars,
                   kernelVars, payoffVars, simVars, runVars, toolVars>>

ComputeAllAlignmentsCall ==
    /\ pc = "alignment"
    /\ al_out' = compute_all_alignments(rg_in.ranked, rg_out)
    /\ pc' = "aligned"
    /\ UNCHANGED <<rg_in, rg_out, scoreVars, riskVars, gateVars, eventVars,
                   kernelVars, payoffVars, simVars, runVars, toolVars>>

InitRegime ==
    /\ pc = "regime"
    /\ rg_in \in { [snapshot |-> s, ranked |-> g] :
                   s \in RegimeSnapshots, g \in RankedNetGammas }
    /\ rg_out = NoneVal
    /\ al_out = NoneVal
    /\ ScoreIdle /\ RiskIdle /\ GateIdle /\ EventIdle
    /\ KernelIdle /\ PayoffIdle /\ SimIdle /\ RunIdle /\ ToolIdle

NextRegime == ClassifyRegimeCall \/ ComputeAllAlignmentsCall

SpecRegime == InitRegime /\ [][NextRegime]_vars

RegimeReturned == pc \in {"alignment", "aligned"}

(***************************************************************************)
(* C15.  classify_regime labels the gamma regime "Amplified Move" or "Pin  *)
(* Risk" (by the sign of gex_net) whenever |gex_net|/gex_abs >= 0.7, a     *)
(* ratio of exactly 0.7 included, and "Neutral" whenever the ratio is      *)
(* below 0.7 or gex_abs is zero.                                           *)
(***************************************************************************)
SnapshotGexRatio == Rat(Abs(rg_in.snapshot.gex_net), rg_in.snapshot.gex_abs)

LabelBySign ==
    IF rg_in.snapshot.gex_net < 0 THEN "Amplified Move Regime"
                                  ELSE "Pin Risk Regime"

C15_GammaThresholdInclusive ==
    RegimeReturned =>
        IF rg_in.snapshot.gex_abs = 0 THEN rg_out.gamma_regime = "Neutral Gamma"
        ELSE IF RLe(Rat(7, 10), SnapshotGexRatio)
             THEN rg_out.gamma_regime = LabelBySign
             ELSE rg_out.gamma_regime = "Neutral Gamma"

\* C15 as the code has it: the threshold is exclusive, so the regime is
\* labelled by the sign of gex_net exactly when the ratio is above 0.7, and
\* is "Neutral" at a ratio of exactly 0.7, below it, and when gex_abs is zero
C15_GammaThresholdExclusive ==
    RegimeReturned =>
        IF rg_in.snapshot.gex_abs = 0 THEN rg_out.gamma_regime = "Neutral Gamma"
        ELSE IF RLt(Rat(7, 10), SnapshotGexRatio)
             THEN rg_out.gamma_regime = LabelBySign
             ELSE rg_out.gamma_regime = "Neutral Gamma"

C15_WitnessRatioAtThreshold ==
    /\ RegimeReturned
    /\ rg_in.snapshot.gex_abs = 100
    /\ rg_in.snapshot.gex_net = -70
    /\ rg_out.gex_ratio = Rat(7, 10)
    /\ rg_out.gamma_regime = "Neutral Gamma"

(***************************************************************************)
(* C16.  Each confidence classify_regime returns (vol, gamma, event and    *)
(* the combined 0.4/0.3/0.3 confidence) lies in [0, 1] for every snapshot, *)
(* also when event_variance_ratio is negative or above 1.                  *)
(***************************************************************************)
InUnitInterval(x) == RLe(RInt(0), x) /\ RLe(x, RInt(1))

C16_ConfidencesInUnitInterval ==
    RegimeReturned =>
        /\ InUnitInterval(rg_out.vol_confidence)
        /\ InUnitInterval(rg_out.gamma_confidence)
        /\ InUnitInterval(rg_out.event_confidence)
        /\ InUnitInterval(rg_out.confidence)

\* what the code has: every confidence is at most 1, and the vol and gamma
\* confidences are in [0, 1]
C16_ConfidencesAtMostOne ==
    RegimeReturned =>
        /\ InUnitInterval(rg_out.vol_confidence)
        /\ InUnitInterval(rg_out.gamma_confidence)
        /\ RLe(rg_out.event_confidence, RInt(1))
        /\ RLe(rg_out.confidence, RInt(1))

C16_WitnessNegativeConfidence ==
    /\ RegimeReturned
    /\ RLt(rg_in.snapshot.event_variance_ratio, RInt(0))
    /\ RLt(rg_out.event_confidence, RInt(0))
    /\ RLt(rg_out.confidence, RInt(0))

(***************************************************************************)
(* C17.  With the regime that classify_regime returned, the gamma-axis     *)
(* score is the scaled sign of the net gamma against the sign the gamma    *)
(* regime wants, normalized by the median absolute gamma; it is 0.5 only   *)
(* if the gamma regime is neutral or that scale is zero, so under an       *)
(* Amplified Move or Pin Risk regime two strategies with net gammas of     *)
(* opposite sign get different gamma-axis scores.                          *)
(***************************************************************************)
C17_OppositeGammasScoreDifferently ==
    (pc = "aligned" /\ rg_out.gamma_regime # "Neutral Gamma") =>
        \A i, j \in 1..Len(rg_in.ranked) :
            (rg_in.ranked[i] < 0 /\ rg_in.ranked[j] > 0) =>
                al_out[i] # al_out[j]

\* what the code has: the dict of classify_regime has no "gamma_bias" key,
\* so every strategy gets 0.5 on the gamma axis under every regime
C17_GammaAxisAlwaysHalf ==
    pc = "aligned" =>
        \A i \in 1..Len(rg_in.ranked) : al_out[i] = Rat(1, 2)

C17_WitnessAmplifiedOppositeGammas ==
    /\ pc = "aligned"
    /\ rg_out.gamma_regime = "Amplified Move Regime"
    /\ rg_in.ranked = << -1, 2, 2 >>
    /\ al_out = << Rat(1, 2), Rat(1, 2), Rat(1, 2) >>

(***************************************************************************)
(* One run of main(): where its inputs come from (main.py 331-377), the    *)
(* front-expiry guard, and the stages a run goes through afterwards.       *)
(* Dates are day numbers.                                                  *)
(***************************************************************************)
\* _validate_front_expiry: raises ValueError unless front_expiry > event_date
_validate_front_expiry(event_date, front_expiry) ==
    IF front_expiry <= event_date THEN "ValueError" ELSE NoneVal

\* loader.get_expiries_after: the sorted expiries on or after the target date
get_expiries_after(expiries, target_date) ==
    SortAsc(CHOOSE s \in [1..Cardinality({e \in expiries : e >= target_date})
                          -> {e \in expiries : e >= target_date}] :
                \A i, j \in DOMAIN s : i # j => s[i] # s[j])

\* generate_test_data_set with its default dates, as _load_test_data_mode
\* calls it
generate_test_data_set(scenario, today) ==
    [event_date   |-> IF scenario \in {"post_event_entry", "post_event_flat"}
                      THEN today - 2 ELSE today + 7,
     front_expiry |-> today + 14,
     back_expiry  |-> today + 42]

\* _load_test_data_mode: the saved data of --test-data-dir, or generated data
_load_test_data_mode(args) ==
    IF args.test_data_dir # NoneOpt THEN args.test_data_dir[1]
    ELSE generate_test_data_set(args.test_scenario, args.today)

\* the branch of main() that fixes event_date and front_expiry: err is the
\* ValueError that main logs before it returns
MainInputs(args) ==
    IF args.test_data
    THEN LET test_data == _load_test_data_mode(args)
         IN  [err |-> NoneVal, event_date |-> Some(test_data.event_date),
              front_expiry |-> Some(test_data.front_expiry)]
    ELSE LET post_event == get_expiries_after(args.expiries, args.event_date)
         IN  IF Len(post_event) < 2
             THEN [err |-> "ValueError", event_date |-> Some(args.event_date),
                   front_expiry |-> NoneOpt]
             ELSE [err |-> _validate_front_expiry(args.event_date,
                                                  post_event[1]),
                   event_date |-> Some(args.event_date),
                   front_expiry |-> Some(post_event[1])]

RunToday == 7

SavedTestData ==
    { [event_date |-> e, front_expiry |-> f, back_expiry |-> 46] :
      e \in {14, 15}, f \in {10, 14, 17} }

RunArgs ==
    { [test_data |-> FALSE, test_data_dir |-> NoneOpt,
       test_scenario |-> "baseline", today |-> RunToday,
       event_date |-> e, expiries |-> x, straddle_found |-> ok] :
      e \in {14, 15}, x \in SUBSET {14, 17, 25, 46}, ok \in BOOLEAN }
    \cup
    { [test_data |-> TRUE, test_data_dir |-> dir,
       test_scenario |-> sc, today |-> RunToday,
       event_date |-> 0, expiries |-> {}, straddle_found |-> ok] :
      dir \in {NoneOpt} \cup {Some(d) : d \in SavedTestData},
      sc \in {"baseline", "post_event_entry"}, ok \in BOOLEAN }

\* main.py 331-414: load the inputs; a ValueError is logged and main returns
LoadInputs ==
    /\ pc = "run_inputs"
    /\ LET inputs == MainInputs(run_in)
       IN  /\ run_out' = [run_out EXCEPT !.err = inputs.err,
                                         !.event_date = inputs.event_date,
                                         !.front_expiry = inputs.front_expiry]
           /\ pc' = IF inputs.err = NoneVal THEN "run_implied_move"
                                            ELSE "run_aborted"
    /\ UNCHANGED <<run_in, scoreVars, riskVars, gateVars, eventVars,
                   kernelVars, payoffVars, regimeVars, simVars, toolVars>>

\* main.py 428-437: implied_move_from_chain raises ValueError when the chain
\* has no at-the-money straddle; main logs it and returns
ImpliedMoveStage ==
    /\ pc = "run_implied_move"
    /\ IF run_in.straddle_found
       THEN /\ pc' = "run_event_variance"
            /\ run_out' = [run_out EXCEPT !.stages = @ \cup {"implied_move"}]
       ELSE /\ pc' = "run_aborted"
            /\ run_out' = [run_out EXCEPT !.err = "ValueError"]
    /\ UNCHANGED <<run_in, scoreVars, riskVars, gateVars, eventVars,
                   kernelVars, payoffVars, regimeVars, simVars, toolVars>>

\* main.py 444-453: event_variance(...)
EventVarianceStage ==
    /\ pc = "run_event_variance"
    /\ pc' = "run_simulation"
    /\ run_out' = [run_out EXCEPT !.stages = @ \cup {"event_variance"}]
    /\ UNCHANGED <<run_in, scoreVars, riskVars, gateVars, eventVars,
                   kernelVars, payoffVars, regimeVars, simVars, toolVars>>

\* main.py 514-524: simulate_moves for every shock level
SimulationStage ==
    /\ pc = "run_simulation"
    /\ pc' = "run_pricing"
    /\ run_out' = [run_out EXCEPT !.stages = @ \cup {"simulation"}]
    /\ UNCHANGED <<run_in, scoreVars, riskVars, gateVars, eventVars,
                   kernelVars, payoffVars, regimeVars, simVars, toolVars>>

\* main.py 564-647: strategy_pnl_vec for every strategy, scenario and shock
PricingStage ==
    /\ pc = "run_pricing"
    /\ pc' = "run_ranking"
    /\ run_out' = [run_out EXCEPT !.stages = @ \cup {"pricing"}]
    /\ UNCHANGED <<run_in, scoreVars, riskVars, gateVars, eventVars,
                   kernelVars, payoffVars, regimeVars, simVars, toolVars>>

\* main.py 649: ranked = score_strategies(results)
RankingStage ==
    /\ pc = "run_ranking"
    /\ pc' = "run_done"
    /\ run_out' = [run_out EXCEPT !.stages = @ \cup {"ranking"}]
    /\ UNCHANGED <<run_in, scoreVars, riskVars, gateVars, eventVars,
                   kernelVars, payoffVars, regimeVars, simVars, toolVars>>

InitRun ==
    /\ pc = "run_inputs"
    /\ run_in \in RunArgs
    /\ run_out = [err |-> NoneVal, event_date |-> NoneOpt,
                  front_expiry |-> NoneOpt, stages |-> {}]
    /\ ScoreIdle /\ RiskIdle /\ GateIdle /\ EventIdle
    /\ KernelIdle /\ PayoffIdle /\ RegimeIdle /\ SimIdle /\ ToolIdle

NextRun ==
    \/ LoadInputs \/ ImpliedMoveStage \/ EventVarianceStage
    \/ SimulationStage \/ PricingStage \/ RankingStage

SpecRun == InitRun /\ [][NextRun]_vars

RunStages == { "run_inputs", "run_implied_move", "run_event_variance",
               "run_simulation", "run_pricing", "run_ranking", "run_done",
               "run_aborted" }

(***************************************************************************)
(* C18.  In every run mode, the test-data mode included, a run whose front *)
(* expiry is not strictly after the event date aborts with an error before *)
(* any event-variance calculation, simulation or pricing, and produces no  *)
(* ranking.                                                                *)
(***************************************************************************)
FrontExpiryNotAfterEvent ==
    /\ run_out.front_expiry # NoneOpt
    /\ run_out.front_expiry[1] <= run_out.event_date[1]

C18_FrontExpiryGuardInEveryMode ==
    (pc \in RunStages /\ FrontExpiryNotAfterEvent) =>
        /\ pc = "run_aborted"
        /\ run_out.err = "ValueError"
        /\ run_out.stages = {}

\* what the code has: the guard stands in live mode only
C18_FrontExpiryGuardInLiveMode ==
    (pc \in RunStages /\ ~run_in.test_data /\ FrontExpiryNotAfterEvent) =>
        /\ pc = "run_aborted"
        /\ run_out.err = "ValueError"
        /\ run_out.stages = {}

\* a test-data run with front expiry on the event date that went through
\* event variance, simulation and pricing and produced a ranking
C18_WitnessTestDataRunCompletes ==
    /\ pc = "run_done"
    /\ run_in.test_data
    /\ run_out.front_expiry = run_out.event_date
    /\ run_out.err = NoneVal
    /\ {"event_variance", "simulation", "pricing", "ranking"}
           \subseteq run_out.stages

(***************************************************************************)
(* The move simulator (simulation/monte_carlo.py) and the shock batches of *)
(* main() (main.py 514-524).                                               *)
(*                                                                         *)
(* A generator is [source, key, start]: the bit stream it draws from and   *)
(* the position of its next draw.  np.random.default_rng(seed) is a new    *)
(* generator at position 0 of the stream of that seed; without a seed it   *)
(* is seeded from fresh OS entropy, which env.entropy stands for.          *)
(* env.global_pos is the position of numpy's process-wide generator.       *)
(***************************************************************************)
VOL_SHOCKS == << -10, -5, 5, 10 >>

\* the variant that draws from the process-wide generator whatever the seed
shared_global_rng(seed, env) ==
    [source |-> "global", key |-> 0, start |-> env.global_pos]

\* np.random.default_rng(seed)
default_rng(seed, env) ==
    IF seed = NoneOpt
    THEN [source |-> "entropy", key |-> env.entropy, start |-> 0]
    ELSE [source |-> "seed", key |-> seed[1], start |-> 0]

\* rng.standard_normal(simulations): the i-th draw of the generator
standard_normal(rng, simulations) ==
    [i \in 1..simulations |-> <<"z", rng.source, rng.key, rng.start + i>>]

\* the variant whose degenerate branch returns an empty array
simulate_moves_empty_degenerate(event_vol, simulations, seed, env) ==
    LET sigma_1d == Bin("/", Num(event_vol), Ap("sqrt", Num(RInt(252))))
        z == standard_normal(default_rng(seed, env), simulations)
    IN  IF RLe(event_vol, RInt(0)) THEN <<>>
        ELSE [i \in 1..simulations |->
                 Bin("-",
                     Ap("exp", Bin("+", Bin("*", Num(Rat(-1, 2)),
                                                 Ap("square", sigma_1d)),
                                        Bin("*", sigma_1d, z[i]))),
                     Num(RInt(1)))]

\* simulate_moves(event_vol, simulations, seed): the array it returns
\* (_validate only logs)
simulate_moves(event_vol, simulations, seed, env) ==
    LET sigma_1d == Bin("/", Num(event_vol), Ap("sqrt", Num(RInt(252))))
        z == standard_normal(default_rng(seed, env), simulations)
    IN  IF RLe(event_vol, RInt(0))
        THEN [i \in 1..simulations |-> Num(RInt(0))]
        ELSE [i \in 1..simulations |->
                 Bin("-",
                     Ap("exp", Bin("+", Bin("*", Num(Rat(-1, 2)),
                                                 Ap("square", sigma_1d)),
                                        Bin("*", sigma_1d, z[i]))),
                     Num(RInt(1)))]

\* the draws a call of simulate_moves takes from the process-wide generator
GlobalDraws(event_vol, simulations, seed, env) ==
    IF RLt(RInt(0), event_vol) /\ default_rng(seed, env).source = "global"
    THEN simulations ELSE 0

\* [0] + [shock for shock in config.VOL_SHOCKS if shock != 0]
ShockLevels ==
    <<0>> \o SelectSeq(VOL_SHOCKS, LAMBDA shock : shock # 0)

\* max(event_vol * (1 + shock / 100.0), 0.0)
ShockVol(event_vol, shock) ==
    RMax(RMul(event_vol, RAdd(RInt(1), Rat(shock, 100))), RInt(0))

\* None if args.seed is None else args.seed + shock + 1000
ShockSeed(args_seed, shock) ==
    IF args_seed = NoneOpt THEN NoneOpt ELSE Some(args_seed[1] + shock + 1000)

\* moves_by_shock after the first k shock levels; entropy[j] is the OS
\* entropy at the j-th call, pos the process-wide generator's position
RECURSIVE MovesByShock(_, _, _, _)
MovesByShock(a, entropy, pos, k) ==
    IF k = 0 THEN [moves |-> <<>>, global_pos |-> pos]
    ELSE LET before == MovesByShock(a, entropy, pos, k - 1)
             shock  == ShockLevels[k]
             env    == [entropy |-> entropy[k],
                        global_pos |-> before.global_pos]
             vol    == ShockVol(a.event_vol, shock)
             seed   == ShockSeed(a.seed, shock)
         IN  [moves |-> Append(before.moves,
                               [shock |-> shock,
                                array |-> simulate_moves(vol, a.simulations,
                                                         seed, env)]),
              global_pos |-> before.global_pos
                             + GlobalDraws(vol, a.simulations, seed, env)]

---------------------------------------------------------------------------
(***************************************************************************)
(* The simulator as a state machine: either simulate_moves is called       *)
(* directly, up to MaxCalls times with arguments of any kind, or main()'s  *)
(* shock batches are run twice on the same event volatility and seed.      *)
(***************************************************************************)
MaxSims == 2

MaxCalls == 2

SimVols == { Rat(-1, 5), RInt(0), Rat(1, 5) }

SimSeeds == { NoneOpt, Some(42) }

Entropy == { 1, 2 }

BatchArgs ==
    { [event_vol |-> v, simulations |-> n, seed |-> s] :
      v \in { RInt(0), Rat(1, 5) }, n \in 1..MaxSims, s \in SimSeeds }

SimulateMovesCall ==
    /\ pc = "simulate"
    /\ Len(sim_out.calls) < MaxCalls
    /\ \E v \in SimVols, n \in 0..MaxSims, s \in SimSeeds, e \in Entropy :
          LET env == [entropy |-> e, global_pos |-> sim_out.global_pos]
          IN  sim_out' =
                  [sim_out EXCEPT
                      !.calls = Append(@, [event_vol |-> v,
                                           simulations |-> n, seed |-> s,
                                           moves |-> simulate_moves(v, n, s,
                                                                    env)]),
                      !.global_pos = @ + GlobalDraws(v, n, s, env)]
    /\ UNCHANGED <<pc, sim_in, scoreVars, riskVars, gateVars, eventVars,
                   kernelVars, payoffVars, regimeVars, runVars, toolVars>>

RunShockBatches ==
    /\ pc = "batches"
    /\ Len(sim_out.runs) < 2
    /\ \E entropy \in [1..Len(ShockLevels) -> Entropy] :
          LET out == MovesByShock(sim_in, entropy, sim_out.global_pos,
                                  Len(ShockLevels))
          IN  sim_out' = [sim_out EXCEPT !.runs = Append(@, out.moves),
                                         !.global_pos = out.global_pos]
    /\ UNCHANGED <<pc, sim_in, scoreVars, riskVars, gateVars, eventVars,
                   kernelVars, payoffVars, regimeVars, runVars, toolVars>>

InitSim ==
    /\ \/ pc = "simulate" /\ sim_in = NoneVal
       \/ pc = "batches" /\ sim_in \in BatchArgs
    /\ sim_out = [calls |-> <<>>, runs |-> <<>>, global_pos |-> 0]
    /\ ScoreIdle /\ RiskIdle /\ GateIdle /\ EventIdle
    /\ KernelIdle /\ PayoffIdle /\ RegimeIdle /\ RunIdle /\ ToolIdle

NextSim == SimulateMovesCall \/ RunShockBatches

SpecSim == InitSim /\ [][NextSim]_vars

(***************************************************************************)
(* C19.  Determinism: two calls of simulate_moves with the same event      *)
(* volatility, N and seed return the same array, and two runs of the       *)
(* pipeline's shock batches on the same event volatility and seed produce  *)
(* the same simulated moves for every vol shock.                           *)
(***************************************************************************)
C19_SameSeedSameMoves ==
    /\ pc = "simulate" =>
           \A i, j \in 1..Len(sim_out.calls) :
               LET a == sim_out.calls[i]
                   b == sim_out.calls[j]
               IN  ( /\ a.seed # NoneOpt
                     /\ a.event_vol = b.event_vol
                     /\ a.simulations = b.simulations
                     /\ a.seed = b.seed ) => a.moves = b.moves
    /\ (pc = "batches" /\ Len(sim_out.runs) = 2 /\ sim_in.seed # NoneOpt) =>
           sim_out.runs[1] = sim_out.runs[2]

\* two seeded calls with the same arguments that drew random moves
C19_WitnessSeededCallsRepeat ==
    /\ pc = "simulate"
    /\ Len(sim_out.calls) >= 2
    /\ sim_out.calls[1].seed = Some(42)
    /\ sim_out.calls[2].seed = Some(42)
    /\ sim_out.calls[1].event_vol = Rat(1, 5)
    /\ sim_out.calls[2].event_vol = Rat(1, 5)
    /\ sim_out.calls[1].simulations = MaxSims
    /\ sim_out.calls[2].simulations = MaxSims
    /\ sim_out.calls[1].moves = sim_out.calls[2].moves
    /\ sim_out.calls[1].moves[1] # sim_out.calls[1].moves[2]

\* two seeded pipeline runs with a positive event volatility
C19_WitnessSeededRunsRepeat ==
    /\ pc = "batches"
    /\ Len(sim_out.runs) = 2
    /\ sim_in.seed = Some(42)
    /\ sim_in.event_vol = Rat(1, 5)
    /\ sim_out.runs[1] = sim_out.runs[2]

\* without a seed each call draws fresh entropy: two unseeded calls with the
\* same volatility and N can return different arrays
C19_WitnessUnseededCallsDiffer ==
    /\ pc = "simulate"
    /\ Len(sim_out.calls) >= 2
    /\ sim_out.calls[1].seed = NoneOpt
    /\ sim_out.calls[2].seed = NoneOpt
    /\ sim_out.calls[1].event_vol = sim_out.calls[2].event_vol
    /\ sim_out.calls[1].simulations = sim_out.calls[2].simulations
    /\ sim_out.calls[1].moves # sim_out.calls[2].moves

(***************************************************************************)
(* C20.  simulate_moves returns exactly N entries for every event          *)
(* volatility, all of them zero when the volatility is <= 0; so within one *)
(* run the move set has the same length for the base case and for every    *)
(* vol shock, also when the shocked volatility is zero.                    *)
(***************************************************************************)
IsZeros(moves) == \A i \in 1..Len(moves) : moves[i] = Num(RInt(0))

C20_MoveSetLengthIsN ==
    /\ pc = "simulate" =>
           \A i \in 1..Len(sim_out.calls) :
               LET c == sim_out.calls[i]
               IN  /\ Len(c.moves) = c.simulations
                   /\ RLe(c.event_vol, RInt(0)) => IsZeros(c.moves)
    /\ pc = "batches" =>
           \A r \in 1..Len(sim_out.runs) :
               /\ Len(sim_out.runs[r]) = Len(ShockLevels)
               /\ \A k \in 1..Len(sim_out.runs[r]) :
                      /\ Len(sim_out.runs[r][k].array) = sim_in.simulations
                      /\ sim_in.event_vol = RInt(0) =>
                             IsZeros(sim_out.runs[r][k].array)

\* a call with a negative volatility and N = MaxSims next to a call with a
\* positive one
C20_WitnessNegativeVol ==
    /\ pc = "simulate"
    /\ Len(sim_out.calls) >= 2
    /\ sim_out.calls[1].event_vol = Rat(-1, 5)
    /\ sim_out.calls[1].simulations = MaxSims
    /\ sim_out.calls[1].moves = [i \in 1..MaxSims |-> Num(RInt(0))]
    /\ sim_out.calls[2].event_vol = Rat(1, 5)
    /\ sim_out.calls[2].simulations = MaxSims
    /\ ~IsZeros(sim_out.calls[2].moves)

\* a run whose event volatility is zero: every shocked volatility is zero
C20_WitnessZeroVolRun ==
    /\ pc = "batches"
    /\ Len(sim_out.runs) >= 1
    /\ sim_in.event_vol = RInt(0)
    /\ sim_in.simulations = MaxSims
    /\ \A k \in 1..Len(ShockLevels) :
           sim_out.runs[1][k].array = [i \in 1..MaxSims |-> Num(RInt(0))]

(***************************************************************************)
(* C22.  compute_metrics called with its five leading arguments only,      *)
(* compute_metrics(strategy, pnls, implied_move, historical_p75, spot),    *)
(* returns a metrics record, whose convexity is the mean of the best 10%   *)
(* of the P&Ls over the absolute mean of the worst 10%, capped at          *)
(* CONVEXITY_CAP.  Stated over the runs of SpecScore, where such a call    *)
(* is one whose robustness_override is left at None.                       *)
(***************************************************************************)
C22_FiveArgumentCallReturnsRecord ==
    (cm_call.outcome # "not_called" /\ cm_call.override = NoneOpt) =>
        /\ cm_call.outcome = "returned"
        /\ cm_call.returned # NoneOpt
        /\ RLe(cm_call.returned[1].convexity, RInt(CONVEXITY_CAP))

\* the first call of a run, made with five arguments, raised
C22_WitnessFiveArgumentCallRaises ==
    /\ cm_call.override = NoneOpt
    /\ cm_call.outcome = "ValueError"
    /\ cm_call.returned = NoneOpt
    /\ results = <<>>

\* P&L arrays with a flat, a near-zero and a small worst tail
TailPnls == { <<0, 0>>, <<0, 10>>, <<-1, 30>>, <<-2, 4>>, <<3, -1, 2>> }

\* with a robustness value supplied, the convexity of the returned record is
\* the tail ratio: below 20 samples each 10% tail is one sample, the largest
\* and the smallest P&L
C22_ConvexityWithRobustness ==
    \A pnls \in TailPnls :
        LET r   == ComputeMetricsResult(Strategy("flat", <<>>), pnls, Some(1))
            all == { pnls[i] : i \in 1..Len(pnls) }
            hi  == CHOOSE x \in all : \A y \in all : y <= x
            lo  == CHOOSE x \in all : \A y \in all : x <= y
        IN  /\ r.err = NoneVal
            /\ r.metrics.convexity =
                   IF lo = 0 THEN RInt(CONVEXITY_CAP)
                   ELSE IF hi > CONVEXITY_CAP * Abs(lo)
                        THEN RInt(CONVEXITY_CAP)
                        ELSE Rat(hi, Abs(lo))

(***************************************************************************)
(* C23.  When event_variance is given a front chain and one back chain but *)
(* no second back chain, the assumption field of its result is             *)
(* "Single-point term structure assumption"; with a second back chain it   *)
(* is another label.  Stated over the runs of SpecEvent.                   *)
(***************************************************************************)
C23_SinglePointAssumptionLabel ==
    EventVarianceReturned =>
        IF ev_in.back2_chain = NoneOpt
        THEN ev_out.assumption = "Single-point term structure assumption"
        ELSE ev_out.assumption # "Single-point term structure assumption"

\* what event_variance does return: the two-point label without a second
\* back chain, the interpolation label with one
C23_TwoPointAssumptionLabel ==
    EventVarianceReturned =>
        IF ev_in.back2_chain = NoneOpt \/ ev_in.back2_expiry = NoneOpt
        THEN ev_out.assumption = "Two-point term structure interpolation"
        ELSE ev_out.assumption = "Term structure interpolation"

\* a result computed from a front and one back chain only
C23_WitnessNoSecondBackChain ==
    /\ EventVarianceReturned
    /\ ev_in.back2_chain = NoneOpt
    /\ ev_in.back2_expiry = NoneOpt
    /\ ev_out.assumption = "Two-point term structure interpolation"

\* a result computed with a second back chain
C23_WitnessSecondBackChain ==
    /\ EventVarianceReturned
    /\ ev_in.back2_chain # NoneOpt
    /\ ev_out.assumption = "Term structure interpolation"

(***************************************************************************)
(* _post_iv called on its own, as strategy_pnl_vec and strategy_pnl call   *)
(* it once per leg: the leg's expiry and quoted IV, the scenario, the ATM  *)
(* IVs of the front and the back expiry and the per-expiry ATM IV of the   *)
(* chain.  A chain row may be quoted at a zero IV.                         *)
(***************************************************************************)
\* the IVs a leg and the ATM rows of its expiry are quoted at: the ATM IV is
\* zero only where the leg's own IV is
QuotedIvs ==
    { <<iv, atm>> : iv \in { RInt(0), Rat(1, 4), Rat(1, 2), Rat(41, 50) },
                    atm \in { Rat(1, 4), Rat(1, 2), Rat(4, 5) } }
    \cup { <<RInt(0), RInt(0)>> }

PostIvArgs ==
    { [expiry |-> e, front_expiry |-> 17, back_expiry |-> 25,
       scenario |-> sc, front_iv |-> Rat(4, 5), back_iv |-> Rat(1, 2),
       leg_iv |-> ivs[1], expiry_atm_iv |-> (e :> ivs[2])] :
      e \in {17, 25}, sc \in DOMAIN IV_SCENARIOS, ivs \in QuotedIvs }

PostIvCall ==
    /\ pc = "post_iv"
    /\ pc' = "post_iv_done"
    /\ pay_out' = Some(_post_iv(pay_in.expiry, pay_in.front_expiry,
                                pay_in.back_expiry, pay_in.scenario,
                                pay_in.front_iv, pay_in.back_iv,
                                pay_in.leg_iv, pay_in.expiry_atm_iv))
    /\ UNCHANGED <<pay_in, scoreVars, riskVars, gateVars, eventVars,
                   kernelVars, regimeVars, simVars, runVars, toolVars>>

InitPostIv ==
    /\ pc = "post_iv"
    /\ pay_in \in PostIvArgs
    /\ pay_out = NoneOpt
    /\ ScoreIdle /\ RiskIdle /\ GateIdle /\ EventIdle
    /\ KernelIdle /\ RegimeIdle /\ SimIdle /\ RunIdle /\ ToolIdle

NextPostIv == PostIvCall

SpecPostIv == InitPostIv /\ [][NextPostIv]_vars

(***************************************************************************)
(* C24.  For every leg and IV scenario the post-event IV used for          *)
(* repricing is leg_iv * (target ATM IV / original ATM IV at the leg's     *)
(* expiry), where the target of the leg's side is the back ATM IV under    *)
(* "collapse_to_back", the side's own ATM IV under "unchanged" and the     *)
(* side's ATM IV times (1 + shift) for a numeric shift; it is always       *)
(* strictly positive.                                                      *)
(***************************************************************************)
PostIvReturned == pc = "post_iv_done"

OriginalAtmIv == pay_in.expiry_atm_iv[pay_in.expiry]

\* the configured scenarios, by side
ScenarioTargetAtmIv ==
    LET front == pay_in.expiry = pay_in.front_expiry
    IN  CASE pay_in.scenario = "base_crush" -> pay_in.back_iv
          [] pay_in.scenario = "hard_crush" ->
                 IF front THEN RMul(pay_in.front_iv, Rat(65, 100))
                 ELSE RMul(pay_in.back_iv, Rat(90, 100))
          [] pay_in.scenario = "expansion" ->
                 IF front THEN RMul(pay_in.front_iv, Rat(110, 100))
                 ELSE RMul(pay_in.back_iv, Rat(105, 100))

C24_PostIvIsScaledLegIv ==
    PostIvReturned =>
        /\ RMul(pay_out[1], OriginalAtmIv)
               = RMul(pay_in.leg_iv, ScenarioTargetAtmIv)
        /\ RLt(RInt(0), pay_out[1])

\* the scaled IV with the original ATM IV floored at TIME_EPSILON, and the
\* result floored at TIME_EPSILON: always strictly positive
C24_PostIvIsFlooredScaledLegIv ==
    PostIvReturned =>
        /\ pay_out[1] =
               RMax(RDiv(RMul(pay_in.leg_iv, ScenarioTargetAtmIv),
                         RMax(OriginalAtmIv, TIME_EPSILON)),
                    TIME_EPSILON)
        /\ RLt(RInt(0), pay_out[1])

\* a leg quoted at a zero IV, repriced at the floor
C24_WitnessZeroIvLeg ==
    /\ PostIvReturned
    /\ pay_in.leg_iv = RInt(0)
    /\ OriginalAtmIv = Rat(1, 2)
    /\ pay_out[1] = TIME_EPSILON

\* a front leg above the ATM IV under the collapse of the front to the back
C24_WitnessCollapseToBack ==
    /\ PostIvReturned
    /\ pay_in.expiry = pay_in.front_expiry
    /\ pay_in.scenario = "base_crush"
    /\ pay_in.leg_iv = Rat(41, 50)
    /\ OriginalAtmIv = Rat(4, 5)
    /\ pay_out[1] = Rat(41, 80)

(***************************************************************************)
(* Strategy construction: build_strategies (strategies/structures.py), the *)
(* backspread builders (strategies/backspreads.py) and the construction    *)
(* phase of main() (main.py 526-562).                                      *)
(*                                                                         *)
(* A chain is a sequence of rows [strike, option_type, expiry], strikes in *)
(* dollars.  sort_values(...).iloc[0] does not say which of two equally    *)
(* near strikes comes first, so a nearest-strike lookup yields the set of  *)
(* strikes it may return and a builder the set of its possible results.    *)
(***************************************************************************)
BACKSPREAD_RATIO == <<1, 2>>

BACKSPREAD_MIN_WING_WIDTH == Rat(5, 2)

ChainRow(k, t, e) == [strike |-> k, option_type |-> t, expiry |-> e]

\* chain[chain["option_type"] == option_type]; None keeps every row
OfType(chain, option_type) ==
    IF option_type = NoneVal THEN chain
    ELSE SelectSeq(chain, LAMBDA row : row.option_type = option_type)

StrikesOf(chain) == { chain[i].strike : i \in 1..Len(chain) }

\* the strikes of rows at the least distance from target
NearestTo(chain, target) ==
    { k \in StrikesOf(chain) :
        \A j \in StrikesOf(chain) :
            RLe(RAbs(RSub(RInt(k), target)), RAbs(RSub(RInt(j), target))) }

\* _nearest_strike: ValueError on an empty selection
_nearest_strike(chain, target, option_type) ==
    IF OfType(chain, option_type) = <<>>
    THEN [err |-> "ValueError", strikes |-> {}]
    ELSE [err |-> NoneVal,
          strikes |-> NearestTo(OfType(chain, option_type), target)]

\* the list build_strategies returns for the strikes it looked up
BaselineStructures(atm_strike, otm_call, otm_put, wing_call, wing_put, front_expiry, back_expiry) ==
    << Strategy("long_call",
                <<Leg("call", atm_strike, 1, "buy", front_expiry)>>),
       Strategy("long_put",
                <<Leg("put", atm_strike, 1, "buy", front_expiry)>>),
       Strategy("long_straddle",
                <<Leg("call", atm_strike, 1, "buy", front_expiry),
                  Leg("put", atm_strike, 1, "buy", front_expiry)>>),
       Strategy("long_strangle",
                <<Leg("call", otm_call, 1, "buy", front_expiry),
                  Leg("put", otm_put, 1, "buy", front_expiry)>>),
       Strategy("call_spread",
                <<Leg("call", atm_strike, 1, "buy", front_expiry),
                  Leg("call", otm_call, 1, "sell", front_expiry)>>),
       Strategy("put_spread",
                <<Leg("put", atm_strike, 1, "buy", front_expiry),
                  Leg("put", otm_put, 1, "sell", front_expiry)>>),
       Strategy("iron_condor",
                <<Leg("call", otm_call, 1, "sell", front_expiry),
                  Leg("call", wing_call, 1, "buy", front_expiry),
                  Leg("put", otm_put, 1, "sell", front_expiry),
                  Leg("put", wing_put, 1, "buy", front_expiry)>>),
       Strategy("calendar",
                <<Leg("call", atm_strike, 1, "sell", front_expiry),
                  Leg("call", atm_strike, 1, "buy", back_expiry)>>) >>

\* a variant of the guard that lets the offset 0.5 itself through
OffsetInRangeClosed(strangle_offset_pct) ==
    /\ RLt(RInt(0), strangle_offset_pct)
    /\ RLe(strangle_offset_pct, Rat(1, 2))

\* 0.0 < strangle_offset_pct < 0.5
OffsetInRange(strangle_offset_pct) ==
    /\ RLt(RInt(0), strangle_offset_pct)
    /\ RLt(strangle_offset_pct, Rat(1, 2))

\* build_strategies: the results it may end in, Raised(e) or Returned(list)
build_strategies(front_chain, back_chain, spot, strangle_offset_pct) ==
    LET move == RMul(spot, strangle_offset_pct)
        atm  == _nearest_strike(front_chain, spot, NoneVal)
        call == _nearest_strike(front_chain, RAdd(spot, move), "call")
        put  == _nearest_strike(front_chain, RSub(spot, move), "put")
    IN  IF ~OffsetInRange(strangle_offset_pct) THEN { Raised("ValueError") }
        ELSE IF atm.err # NoneVal THEN { Raised(atm.err) }
        ELSE IF call.err # NoneVal THEN { Raised(call.err) }
        ELSE IF put.err # NoneVal THEN { Raised(put.err) }
        ELSE IF back_chain = <<>> THEN { Raised("IndexError") }
        ELSE UNION { UNION {
               { Returned(BaselineStructures(a, c, p, wc, wp,
                                             front_chain[1].expiry,
                                             back_chain[1].expiry)) :
                 a \in atm.strikes,
                 wc \in _nearest_strike(front_chain,
                            RMul(RInt(c), Rat(105, 100)), "call").strikes,
                 wp \in _nearest_strike(front_chain,
                            RMul(RInt(p), Rat(95, 100)), "put").strikes } :
               p \in put.strikes } : c \in call.strikes }

\* a variant that takes any strike beyond the short strike as a wing
WingCandidatesAnyWidth(strikes, short_strike, option_type) ==
    IF option_type = "call"
    THEN { k \in strikes : k > short_strike }
    ELSE { k \in strikes : k < short_strike }

\* legs[legs["strike"] >= short_strike + BACKSPREAD_MIN_WING_WIDTH] for a
\* call, legs[legs["strike"] <= short_strike - BACKSPREAD_MIN_WING_WIDTH]
\* for a put
WingCandidates(strikes, short_strike, option_type) ==
    IF option_type = "call"
    THEN { k \in strikes :
             RLe(RAdd(RInt(short_strike), BACKSPREAD_MIN_WING_WIDTH),
                 RInt(k)) }
    ELSE { k \in strikes :
             RLe(RInt(k),
                 RSub(RInt(short_strike), BACKSPREAD_MIN_WING_WIDTH)) }

\* candidates.iloc[0] after the sort: ascending for a call, descending for a
\* put
FirstCandidate(candidates, option_type) ==
    IF option_type = "call"
    THEN CHOOSE k \in candidates : \A j \in candidates : k <= j
    ELSE CHOOSE k \in candidates : \A j \in candidates : k >= j

\* _select_backspread_strikes: the pairs (short_strike, long_strike) it may
\* return, (None, None) included
_select_backspread_strikes(chain, spot, option_type) ==
    LET legs == OfType(chain, option_type)
    IN  IF legs = <<>> THEN { <<NoneOpt, NoneOpt>> }
        ELSE { LET candidates == WingCandidates(StrikesOf(legs), short,
                                                option_type)
               IN  IF candidates = {} THEN <<NoneOpt, NoneOpt>>
                   ELSE <<Some(short),
                          Some(FirstCandidate(candidates, option_type))>> :
               short \in NearestTo(legs, spot) }

\* build_call_backspread / build_put_backspread: None (NoneOpt) or the 1x2
\* structure
BuildBackspread(front_chain, spot, front_expiry, option_type) ==
    { IF pair[1] = NoneOpt \/ pair[2] = NoneOpt THEN NoneOpt
      ELSE Some(Strategy(option_type \o "_backspread",
                         <<Leg(option_type, pair[1][1], BACKSPREAD_RATIO[1],
                               "sell", front_expiry),
                           Leg(option_type, pair[2][1], BACKSPREAD_RATIO[2],
                               "buy", front_expiry)>>)) :
      pair \in _select_backspread_strikes(front_chain, spot, option_type) }

build_call_backspread(front_chain, spot, front_expiry) ==
    BuildBackspread(front_chain, spot, front_expiry, "call")

build_put_backspread(front_chain, spot, front_expiry) ==
    BuildBackspread(front_chain, spot, front_expiry, "put")

\* _not_applicable_reason (main.py): the clauses of the reason text, one per
\* condition it reports, without the numbers formatted into them
_not_applicable_reason(name, snap) ==
    IF name \in {"CALL_BACKSPREAD", "PUT_BACKSPREAD"}
    THEN LET iv_ratio == SnapGet(snap, "iv_ratio", 0)
             evr      == SnapGet(snap, "event_variance_ratio", 0)
             im       == SnapGet(snap, "implied_move", 0)
             p75      == SnapGet(snap, "historical_p75", 0)
             sd       == SnapGet(snap, "short_delta", 0)
             dte      == SnapGet(snap, "back_dte", 0)
             reasons  ==
                 (IF iv_ratio < BACKSPREAD_MIN_IV_RATIO
                  THEN <<"IV ratio < required">> ELSE <<>>)
                 \o (IF evr < BACKSPREAD_MIN_EVENT_VAR_RATIO
                     THEN <<"event var ratio < required">> ELSE <<>>)
                 \o (IF im * 100 > p75 * BACKSPREAD_MAX_IMPLIED_OVER_P75
                     THEN <<"implied move > P75 x max (overpriced)">>
                     ELSE <<>>)
                 \o (IF sd < BACKSPREAD_MIN_SHORT_DELTA
                     THEN <<"short delta < required">> ELSE <<>>)
                 \o (IF ~(BACK3_DTE_MIN <= dte /\ dte <= BACK3_DTE_MAX)
                     THEN <<"back DTE outside range">> ELSE <<>>)
         IN  IF reasons # <<>> THEN reasons ELSE <<"Conditions not met">>
    ELSE IF name = "POST_EVENT_CALENDAR"
    THEN IF SnapGet(snap, "days_after_event", 0) = 0
         THEN <<"Entry requires 1-3 days after earnings event (currently pre-event)">>
         ELSE <<"days after event exceeds the 3-day entry window">>
    ELSE <<"Entry conditions not met">>

\* the names main() reports on, in its order
ConditionalNames == <<"CALL_BACKSPREAD", "PUT_BACKSPREAD", "POST_EVENT_CALENDAR">>

\* the not_applicable list of main(): an entry for each name whose gate
\* declines
NotApplicable(snap) ==
    LET Entry(i) ==
            IF ShouldBuildStrategy(ConditionalNames[i], snap) # "True"
            THEN <<[name   |-> ConditionalNames[i],
                    reason |-> _not_applicable_reason(ConditionalNames[i],
                                                      snap)]>>
            ELSE <<>>
    IN  Entry(1) \o Entry(2) \o Entry(3)

\* if should_build_strategy(name, snapshot): bs = build_...(...); if bs is
\* not None: strategies.append(bs) -- what the step may append
ConditionalBuild(name, snap, built) ==
    IF ShouldBuildStrategy(name, snap) = "True" THEN built ELSE { NoneOpt }

\* snapshot["implied_move"] is in 1/1000; the strangle offset is
\* implied_move * 0.8
StrangleOffset(snap) == RMul(Rat(snap.implied_move, 1000), Rat(4, 5))

\* main.py 526-562: the outcomes of the construction phase of a run,
\* [err, strategies, not_applicable]; a ValueError of build_strategies is
\* not caught and ends the run
ConstructionPhase(front_chain, back_chain, spot, snap) ==
    UNION {
      IF base.err # NoneVal
      THEN { [err |-> base.err, strategies |-> <<>>, not_applicable |-> <<>>] }
      ELSE { [err |-> NoneVal,
              strategies |-> base.val[1] \o call_bs \o put_bs,
              not_applicable |-> NotApplicable(snap)] :
             call_bs \in ConditionalBuild("CALL_BACKSPREAD", snap,
                            build_call_backspread(front_chain, spot,
                                                  front_chain[1].expiry)),
             put_bs \in ConditionalBuild("PUT_BACKSPREAD", snap,
                            build_put_backspread(front_chain, spot,
                                                 front_chain[1].expiry)) } :
      base \in build_strategies(front_chain, back_chain, spot,
                                StrangleOffset(snap)) }

\* implied_move_from_chain finds a call and a put at the ATM strike; main()
\* returns before the construction phase otherwise
AtmStraddleFound(front_chain, spot) ==
    /\ front_chain # <<>>
    /\ \E k \in NearestTo(front_chain, spot) :
          /\ \E i \in 1..Len(front_chain) :
                front_chain[i].strike = k /\ front_chain[i].option_type = "call"
          /\ \E i \in 1..Len(front_chain) :
                front_chain[i].strike = k /\ front_chain[i].option_type = "put"

\* front chains: five strikes of both types; two strikes closer than the
\* wing width; strikes at 2, 3 and 5 dollars above the nearest one; two
\* strikes equally near the spot; calls only; no rows.  Expiries are day
\* numbers, 17 for the front chain and 45 for the back chain
BothTypes(strikes, e) ==
    [i \in 1..(2 * Len(strikes)) |->
        IF i <= Len(strikes) THEN ChainRow(strikes[i], "call", e)
        ELSE ChainRow(strikes[i - Len(strikes)], "put", e)]

WideChain == BothTypes(<<90, 95, 100, 105, 110>>, 17)

NarrowChain == BothTypes(<<100, 102>>, 17)

StepChain == BothTypes(<<100, 102, 103, 105>>, 17)

TiedChain == BothTypes(<<90, 98, 102, 110>>, 17)

CallsOnlyChain ==
    << ChainRow(100, "call", 17),
       ChainRow(105, "call", 17) >>

BuildFrontChains ==
    { WideChain, NarrowChain, StepChain, TiedChain, CallsOnlyChain, <<>> }

BuildBackChains == { BothTypes(<<100>>, 45), <<>> }

\* implied_move and historical_p75 in 1/1000, ratios and delta in 1/100
BuildSnapshots ==
    [ iv_ratio             : {109, 140},
      event_variance_ratio : {50},
      implied_move         : {0, 10, 50, 624, 625, 700},
      historical_p75       : {100},
      short_delta          : {80},
      days_after_event     : {0, 2, 4},
      front_dte            : {2, 7},
      back_dte             : {35} ]

BuildOffsets ==
    { Rat(-1, 20), RInt(0), Rat(1, 20), Rat(49, 100), Rat(1, 2), Rat(3, 5) }

BuildInputs ==
    { [front_chain |-> f, back_chain |-> b, spot |-> RInt(100),
       snapshot |-> s] :
      f \in BuildFrontChains, b \in BuildBackChains, s \in BuildSnapshots }

otherThanBuild ==
    <<scoreVars, riskVars, gateVars, eventVars, kernelVars, payoffVars,
      regimeVars, simVars, runVars, batchVars>>

\* a call of build_strategies with an offset of the caller's choice
BuildStrategiesCall ==
    /\ pc = "build"
    /\ bd_out.direct = NoneOpt
    /\ \E offset \in BuildOffsets :
         \E r \in build_strategies(bd_in.front_chain, bd_in.back_chain,
                                   bd_in.spot, offset) :
            bd_out' = [bd_out EXCEPT
                         !.direct = Some([offset |-> offset, result |-> r])]
    /\ UNCHANGED <<pc, bd_in, otherThanBuild>>

\* a call of build_call_backspread or build_put_backspread
BuildBackspreadCall ==
    /\ pc = "build"
    /\ bd_out.backspread = NoneOpt
    /\ bd_in.front_chain # <<>>
    /\ \E t \in {"call", "put"} :
         \E r \in BuildBackspread(bd_in.front_chain, bd_in.spot,
                                  bd_in.front_chain[1].expiry, t) :
            bd_out' = [bd_out EXCEPT
                         !.backspread = Some([option_type |-> t,
                                              result |-> r])]
    /\ UNCHANGED <<pc, bd_in, otherThanBuild>>

\* the construction phase of a run that got as far as it
RunConstructionPhase ==
    /\ pc = "build"
    /\ bd_out.phase = NoneOpt
    /\ AtmStraddleFound(bd_in.front_chain, bd_in.spot)
    /\ bd_in.back_chain # <<>>
    /\ \E o \in ConstructionPhase(bd_in.front_chain, bd_in.back_chain,
                                  bd_in.spot, bd_in.snapshot) :
          bd_out' = [bd_out EXCEPT !.phase = Some(o)]
    /\ UNCHANGED <<pc, bd_in, otherThanBuild>>

\* the scoring phase gives every structure of the pool its
\* risk_classification
ClassifyPool ==
    /\ pc = "build"
    /\ bd_out.phase # NoneOpt
    /\ bd_out.phase[1].err = NoneVal
    /\ bd_out.risk = NoneOpt
    /\ bd_out' = [bd_out EXCEPT
                    !.risk = Some([i \in 1..Len(bd_out.phase[1].strategies)
                                     |-> RiskClassification(
                                           bd_out.phase[1].strategies[i])])]
    /\ UNCHANGED <<pc, bd_in, otherThanBuild>>

InitBuild ==
    /\ pc = "build"
    /\ bd_in \in BuildInputs
    /\ bd_out = [direct |-> NoneOpt, backspread |-> NoneOpt,
                 phase |-> NoneOpt, risk |-> NoneOpt]
    /\ ScoreIdle /\ RiskIdle /\ GateIdle /\ EventIdle
    /\ KernelIdle /\ PayoffIdle /\ RegimeIdle /\ SimIdle /\ RunIdle
    /\ BatchIdle

NextBuild ==
    \/ BuildStrategiesCall
    \/ BuildBackspreadCall
    \/ RunConstructionPhase
    \/ ClassifyPool

SpecBuild == InitBuild /\ [][NextBuild]_vars

(***************************************************************************)
(* C21.  build_strategies raises an error whenever the strangle offset is  *)
(* not strictly inside (0, 0.5), and for every offset inside it (on chains *)
(* that quote both option types and a back chain with a row) it returns    *)
(* at least the eight baseline structures; the pipeline passes             *)
(* 0.8 * implied_move, so a run whose implied move is >= 0.625 or <= 0     *)
(* ends at construction with that error.                                   *)
(***************************************************************************)
BaselineNames ==
    { "long_call", "long_put", "long_straddle", "long_strangle",
      "call_spread", "put_spread", "iron_condor", "calendar" }

QuotesBothTypes(chain) ==
    /\ \E i \in 1..Len(chain) : chain[i].option_type = "call"
    /\ \E i \in 1..Len(chain) : chain[i].option_type = "put"

C21_OffsetGuardAndBaseline ==
    /\ bd_out.direct # NoneOpt =>
         LET offset == bd_out.direct[1].offset
             r      == bd_out.direct[1].result
             inside == RLt(RInt(0), offset) /\ RLt(offset, Rat(1, 2))
         IN  /\ ~inside => r.err = "ValueError"
             /\ (inside /\ QuotesBothTypes(bd_in.front_chain)
                        /\ bd_in.back_chain # <<>>) =>
                   /\ r.err = NoneVal
                   /\ Len(r.val[1]) >= 8
                   /\ BaselineNames
                        \subseteq { r.val[1][i].name : i \in 1..Len(r.val[1]) }
    /\ bd_out.phase # NoneOpt =>
         /\ (bd_in.snapshot.implied_move >= 625
               \/ bd_in.snapshot.implied_move <= 0) =>
                   bd_out.phase[1].err = "ValueError"
         /\ (bd_in.snapshot.implied_move > 0
               /\ bd_in.snapshot.implied_move < 625) =>
                   /\ bd_out.phase[1].err = NoneVal
                   /\ Len(bd_out.phase[1].strategies) >= 8

C21_WitnessOffsetHalfAndMoveAtLimit ==
    /\ bd_out.direct # NoneOpt
    /\ bd_out.direct[1].offset = Rat(1, 2)
    /\ bd_out.direct[1].result.err = "ValueError"
    /\ QuotesBothTypes(bd_in.front_chain)
    /\ bd_out.phase # NoneOpt
    /\ bd_in.snapshot.implied_move = 625
    /\ bd_out.phase[1].err = "ValueError"

C21_WitnessEightStructures ==
    /\ bd_out.direct # NoneOpt
    /\ bd_out.direct[1].offset = Rat(49, 100)
    /\ bd_out.direct[1].result.err = NoneVal
    /\ Len(bd_out.direct[1].result.val[1]) = 8

(***************************************************************************)
(* C25.  A backspread builder sells at the strike of its option type       *)
(* nearest to spot and buys at the first strike at least the minimum wing  *)
(* width (2.5) beyond it in the out-of-the-money direction, above for      *)
(* calls and below for puts; when there is no such strike, or no quote of  *)
(* that type, it returns no structure (and raises nothing).                *)
(***************************************************************************)
BackspreadType == bd_out.backspread[1].option_type

BackspreadResult == bd_out.backspread[1].result

\* strikes the front chain quotes for the builder's option type
TypeStrikes ==
    { bd_in.front_chain[i].strike :
        i \in { j \in 1..Len(bd_in.front_chain) :
                  bd_in.front_chain[j].option_type = BackspreadType } }

\* twice the distance from spot 100, to stay in integers
NearestToSpot(k) ==
    \A j \in TypeStrikes : Abs(2 * k - 200) <= Abs(2 * j - 200)

\* k is at least 2.5 beyond short on the out-of-the-money side
BeyondWing(short, k) ==
    IF BackspreadType = "call" THEN 2 * k >= 2 * short + 5
    ELSE 2 * k <= 2 * short - 5

C25_BackspreadStrikeSelection ==
    bd_out.backspread # NoneOpt =>
      /\ TypeStrikes = {} => BackspreadResult = NoneOpt
      /\ BackspreadResult = NoneOpt =>
            \/ TypeStrikes = {}
            \/ \E short \in TypeStrikes :
                  /\ NearestToSpot(short)
                  /\ \A k \in TypeStrikes : ~BeyondWing(short, k)
      /\ BackspreadResult # NoneOpt =>
            LET legs  == BackspreadResult[1].legs
                short == legs[1].strike
                long  == legs[2].strike
            IN  /\ Len(legs) = 2
                /\ legs[1].side = "sell" /\ legs[1].qty = 1
                /\ legs[2].side = "buy" /\ legs[2].qty = 2
                /\ legs[1].option_type = BackspreadType
                /\ legs[2].option_type = BackspreadType
                /\ short \in TypeStrikes /\ NearestToSpot(short)
                /\ long \in TypeStrikes /\ BeyondWing(short, long)
                /\ \A k \in TypeStrikes :
                      BeyondWing(short, k) => Abs(k - short) >= Abs(long - short)

\* the call builder passes over the strike 2 dollars above the short strike
C25_WitnessSkipsNarrowStrike ==
    /\ bd_out.backspread # NoneOpt
    /\ bd_in.front_chain = StepChain
    /\ BackspreadType = "call"
    /\ BackspreadResult # NoneOpt
    /\ BackspreadResult[1].legs[1].strike = 100
    /\ BackspreadResult[1].legs[2].strike = 103

C25_WitnessNoWingStrike ==
    /\ bd_out.backspread # NoneOpt
    /\ bd_in.front_chain = NarrowChain
    /\ BackspreadResult = NoneOpt

C25_WitnessNoQuotesOfType ==
    /\ bd_out.backspread # NoneOpt
    /\ bd_in.front_chain = CallsOnlyChain
    /\ BackspreadType = "put"
    /\ BackspreadResult = NoneOpt

(***************************************************************************)
(* C27.  Every baseline structure build_strategies returns (long call,     *)
(* long put, straddle, strangle, call debit spread, put debit spread,      *)
(* iron condor, calendar) is classified defined_risk by the scoring phase, *)
(* so none of them gets the 0.9 undefined-risk penalty.                    *)
(***************************************************************************)
PoolStrategies == bd_out.phase[1].strategies

PoolClassified == bd_out.phase # NoneOpt /\ bd_out.risk # NoneOpt

C27_BaselineAllDefinedRisk ==
    PoolClassified =>
        \A i \in 1..Len(PoolStrategies) :
            PoolStrategies[i].name \in BaselineNames =>
                bd_out.risk[1][i] = "defined_risk"

\* the two debit spreads are the only baseline structures that are ever
\* classified undefined_risk, and only when the sold strike is further
\* out of the money than the bought one
C27_OnlyDebitSpreadsUndefinedRisk ==
    PoolClassified =>
        \A i \in 1..Len(PoolStrategies) :
            (PoolStrategies[i].name \in BaselineNames
               /\ bd_out.risk[1][i] = "undefined_risk") =>
                /\ PoolStrategies[i].name \in {"call_spread", "put_spread"}
                /\ PoolStrategies[i].legs[1].strike
                     # PoolStrategies[i].legs[2].strike

C27_WitnessCallSpreadUndefinedRisk ==
    /\ PoolClassified
    /\ bd_in.front_chain = WideChain
    /\ bd_in.snapshot.implied_move = 50
    /\ PoolStrategies[5].name = "call_spread"
    /\ PoolStrategies[5].legs[1].strike = 100
    /\ PoolStrategies[5].legs[2].strike = 105
    /\ bd_out.risk[1][5] = "undefined_risk"

(***************************************************************************)
(* C28.  After conditional construction each of CALL_BACKSPREAD and        *)
(* PUT_BACKSPREAD is in exactly one of two places: the scored candidate    *)
(* pool, or the not-applicable list together with a reason; a structure    *)
(* whose gate passes but whose builder returns no structure is not         *)
(* silently absent from both.                                              *)
(***************************************************************************)
PhaseCompleted == bd_out.phase # NoneOpt /\ bd_out.phase[1].err = NoneVal

PoolName(name) ==
    IF name = "CALL_BACKSPREAD" THEN "call_backspread" ELSE "put_backspread"

InPool(name) ==
    \E i \in 1..Len(PoolStrategies) : PoolStrategies[i].name = PoolName(name)

InNotApplicable(name) ==
    \E i \in 1..Len(bd_out.phase[1].not_applicable) :
        /\ bd_out.phase[1].not_applicable[i].name = name
        /\ bd_out.phase[1].not_applicable[i].reason # <<>>

C28_BackspreadPooledOrNotApplicable ==
    PhaseCompleted =>
        \A name \in {"CALL_BACKSPREAD", "PUT_BACKSPREAD"} :
            InPool(name) # InNotApplicable(name)

\* never in both places
C28_BackspreadNeverInBoth ==
    PhaseCompleted =>
        \A name \in {"CALL_BACKSPREAD", "PUT_BACKSPREAD"} :
            ~(InPool(name) /\ InNotApplicable(name))

C28_WitnessBackspreadSilentlyAbsent ==
    /\ PhaseCompleted
    /\ bd_in.front_chain = NarrowChain
    /\ ShouldBuildStrategy("CALL_BACKSPREAD", bd_in.snapshot) = "True"
    /\ ~InPool("CALL_BACKSPREAD")
    /\ ~InNotApplicable("CALL_BACKSPREAD")

(***************************************************************************)
(* C29.  Whenever POST_EVENT_CALENDAR is reported not applicable, the      *)
(* reason names a gate condition that actually failed: a snapshot with     *)
(* days_after_event in [1, 3] that is rejected for its IV ratio or front   *)
(* DTE is never reported as being outside the 3-day entry window.          *)
(***************************************************************************)
PostEventEntries ==
    { bd_out.phase[1].not_applicable[i] :
        i \in { j \in 1..Len(bd_out.phase[1].not_applicable) :
                  bd_out.phase[1].not_applicable[j].name
                    = "POST_EVENT_CALENDAR" } }

C29_PostEventReasonNamesFailedCondition ==
    PhaseCompleted =>
        \A e \in PostEventEntries :
            /\ e.reason
                 = <<"Entry requires 1-3 days after earnings event (currently pre-event)">>
                 => bd_in.snapshot.days_after_event = 0
            /\ e.reason = <<"days after event exceeds the 3-day entry window">>
                 => bd_in.snapshot.days_after_event > 3

C29_WitnessInWindowReportedOutside ==
    /\ PhaseCompleted
    /\ bd_in.snapshot.days_after_event = 2
    /\ bd_in.snapshot.iv_ratio = 109
    /\ bd_in.snapshot.front_dte = 7
    /\ \E e \in PostEventEntries :
          e.reason = <<"days after event exceeds the 3-day entry window">>

\* POST_EVENT_CALENDAR is reported exactly when its gate declines
C29_PostEventReportedIffGateDeclines ==
    PhaseCompleted =>
        (PostEventEntries # {}
           <=> ~PostEventCalendarConditionsMet(bd_in.snapshot))

(***************************************************************************)
(* compute_all_alignments on the ranked list itself (alignment.py 154-181, *)
(* main.py 743-747).  A ranked candidate is a dict, here a function from   *)
(* its keys; scores are in 1/100.  Of the alignment record only the gamma  *)
(* axis is computed.                                                       *)
(***************************************************************************)
MaxRanked == 2

\* the sequences over S of length 0..n
RECURSIVE SeqsUpTo(_, _)
SeqsUpTo(S, n) ==
    IF n = 0 THEN { <<>> }
    ELSE LET shorter == SeqsUpTo(S, n - 1)
         IN  shorter \cup { Append(q, x) : q \in shorter, x \in S }

\* a variant that also overwrites the score with the alignment
SetAlignmentAndScore(s, alignment) ==
    [k \in DOMAIN s \cup {"alignment"} |->
        IF k = "alignment" THEN alignment
        ELSE IF k = "score" THEN 0
        ELSE s[k]]

\* s["alignment"] = alignment
SetAlignment(s, alignment) ==
    [k \in DOMAIN s \cup {"alignment"} |->
        IF k = "alignment" THEN alignment ELSE s[k]]

\* compute_all_alignments(strategies, regime): the list after the loop
AlignInPlace(strategies, regime) ==
    LET net_gammas == [i \in 1..Len(strategies) |->
                          DictGet(strategies[i], "net_gamma", 0)]
        aligned == compute_all_alignments(net_gammas, regime)
    IN  [i \in 1..Len(strategies) |->
            SetAlignment(strategies[i], [gamma_alignment |-> aligned[i]])]

RankedCandidates ==
    [ strategy : {"long_call", "iron_condor"}, score : {40, 70},
      rank : 1..MaxRanked,
      risk_classification : {"defined_risk", "undefined_risk"},
      ev : {5}, net_gamma : {-1, 2} ]

\* score_strategies returns the list sorted by score, highest first
RankedLists ==
    { r \in SeqsUpTo(RankedCandidates, MaxRanked) :
        \A i \in 1..Len(r), j \in 1..Len(r) :
            i < j => r[i].score >= r[j].score }

Regimes == { [gamma_bias |-> g] : g \in {"neutral", "long_gamma", "short_gamma"} }

ComputeAllAlignmentsOnRanked ==
    /\ pc = "align_ranked"
    /\ al_out' = AlignInPlace(rg_in.ranked, rg_out)
    /\ pc' = "ranked_aligned"
    /\ UNCHANGED <<rg_in, rg_out, scoreVars, riskVars, gateVars, eventVars,
                   kernelVars, payoffVars, simVars, runVars, toolVars>>

InitAlign ==
    /\ pc = "align_ranked"
    /\ rg_in \in { [ranked |-> r] : r \in RankedLists }
    /\ rg_out \in Regimes
    /\ al_out = NoneVal
    /\ ScoreIdle /\ RiskIdle /\ GateIdle /\ EventIdle
    /\ KernelIdle /\ PayoffIdle /\ SimIdle /\ RunIdle /\ ToolIdle

NextAlign == ComputeAllAlignmentsOnRanked

SpecAlign == InitAlign /\ [][NextAlign]_vars

(***************************************************************************)
(* C26.  compute_all_alignments, run after scoring, only attaches an       *)
(* alignment record to each ranked candidate: the order of the candidates  *)
(* and each one's score, rank, risk classification and metrics are as      *)
(* they were before.                                                       *)
(***************************************************************************)
C26_AlignmentOnlyAttaches ==
    pc = "ranked_aligned" =>
        /\ Len(al_out) = Len(rg_in.ranked)
        /\ \A i \in 1..Len(al_out) :
              /\ DOMAIN al_out[i] = DOMAIN rg_in.ranked[i] \cup {"alignment"}
              /\ \A k \in DOMAIN rg_in.ranked[i] :
                    al_out[i][k] = rg_in.ranked[i][k]
              /\ DOMAIN al_out[i]["alignment"] = {"gamma_alignment"}

\* two candidates in score order whose alignments are in the opposite order
C26_WitnessAlignmentAgainstRanking ==
    /\ pc = "ranked_aligned"
    /\ Len(al_out) = 2
    /\ al_out[1]["score"] > al_out[2]["score"]
    /\ RLt(al_out[1]["alignment"].gamma_alignment,
           al_out[2]["alignment"].gamma_alignment)

(***************************************************************************)
(* Batch download (scripts/download_batch.py).  download_batch submits one *)
(* download_single_ticker call per requested ticker to a pool of           *)
(* max_workers threads and collects the futures as they complete.  A       *)
(* request is a sequence of tickers; what the network gives each download  *)
(* is an input: "success", "no_data", "error" (an error status returned)   *)
(* or "raises" (an exception out of download_options_chain).  Futures are  *)
(* numbered by position in the request.                                    *)
(***************************************************************************)
MaxTickers == 3

MaxWorkers == 2

BatchTickers == {"NVDA", "AMD"}

DownloadOutcomes == {"success", "no_data", "error", "raises"}

DownloadRecord(ticker, status) == [ticker |-> ticker, status |-> status]

\* download_options_chain: the record it returns, or the exception it lets
\* out
download_options_chain(ticker, outcome) ==
    IF outcome = "raises" THEN Raised("Exception")
    ELSE Returned(DownloadRecord(ticker, outcome))

\* download_single_ticker: try: return download_options_chain(...)
\* except Exception: return the error record
download_single_ticker(ticker, outcome) ==
    LET r == download_options_chain(ticker, outcome)
    IN  IF r.err # NoneVal THEN Returned(DownloadRecord(ticker, "error"))
        ELSE r

\* a variant of the future table keyed by ticker, which keeps one future per
\* distinct ticker
FutureToTickerByName(tickers) ==
    { i \in 1..Len(tickers) :
        \A j \in 1..Len(tickers) : tickers[j] = tickers[i] => i <= j }

\* the keys of future_to_ticker: one future per submit
FutureToTicker(tickers) == 1..Len(tickers)

\* the body of the as_completed loop for one future: append its result, or
\* the error record when future.result() raises
CollectFuture(collected, ticker, fut) ==
    IF fut.err = NoneVal THEN Append(collected, fut.val[1])
    ELSE Append(collected, DownloadRecord(ticker, "error"))

BatchRequests ==
    { [tickers |-> t, outcome |-> o, max_workers |-> w] :
        t \in SeqsUpTo(BatchTickers, MaxTickers),
        o \in SeqsUpTo(DownloadOutcomes, MaxTickers),
        w \in 1..MaxWorkers }

otherThanBatch ==
    <<scoreVars, riskVars, gateVars, eventVars, kernelVars, payoffVars,
      regimeVars, simVars, runVars, buildVars>>

\* executor.submit(download_single_ticker, args), in request order
Submit ==
    /\ pc = "batch"
    /\ dl_out.submitted < Len(dl_in.tickers)
    /\ dl_out' = [dl_out EXCEPT
                    !.submitted = @ + 1,
                    !.queue = Append(@, dl_out.submitted + 1)]
    /\ UNCHANGED <<pc, dl_in, otherThanBatch>>

\* a free worker thread takes the oldest queued call
WorkerStart ==
    /\ pc = "batch"
    /\ dl_out.queue # <<>>
    /\ Cardinality(dl_out.running) < dl_in.max_workers
    /\ dl_out' = [dl_out EXCEPT
                    !.queue = Tail(@),
                    !.running = @ \cup {Head(dl_out.queue)}]
    /\ UNCHANGED <<pc, dl_in, otherThanBatch>>

\* a worker thread finishes its call and completes the future
WorkerFinish ==
    /\ pc = "batch"
    /\ \E i \in dl_out.running :
          dl_out' = [dl_out EXCEPT
                       !.running = @ \ {i},
                       !.done[i] = Some(download_single_ticker(
                                          dl_in.tickers[i],
                                          dl_in.outcome[i]))]
    /\ UNCHANGED <<pc, dl_in, otherThanBatch>>

\* one turn of `for future in as_completed(future_to_ticker)`, which starts
\* once every call is submitted
Collect ==
    /\ pc = "batch"
    /\ dl_out.submitted = Len(dl_in.tickers)
    /\ \E i \in FutureToTicker(dl_in.tickers) \ dl_out.yielded :
          /\ dl_out.done[i] # NoneOpt
          /\ dl_out' = [dl_out EXCEPT
                          !.yielded = @ \cup {i},
                          !.results = CollectFuture(@, dl_in.tickers[i],
                                                    dl_out.done[i][1])]
    /\ UNCHANGED <<pc, dl_in, otherThanBatch>>

\* the loop is over, the executor has shut down: return results
ReturnResults ==
    /\ pc = "batch"
    /\ dl_out.submitted = Len(dl_in.tickers)
    /\ dl_out.yielded = FutureToTicker(dl_in.tickers)
    /\ dl_out.queue = <<>> /\ dl_out.running = {}
    /\ pc' = "batch_done"
    /\ UNCHANGED <<dl_in, dl_out, otherThanBatch>>

InitBatch ==
    /\ pc = "batch"
    /\ dl_in \in { r \in BatchRequests : Len(r.tickers) = Len(r.outcome) }
    /\ dl_out = [submitted |-> 0, queue |-> <<>>, running |-> {},
                 done |-> [i \in 1..Len(dl_in.tickers) |-> NoneOpt],
                 yielded |-> {}, results |-> <<>>]
    /\ ScoreIdle /\ RiskIdle /\ GateIdle /\ EventIdle
    /\ KernelIdle /\ PayoffIdle /\ RegimeIdle /\ SimIdle /\ RunIdle
    /\ BuildIdle

NextBatch ==
    \/ Submit
    \/ WorkerStart
    \/ WorkerFinish
    \/ Collect
    \/ ReturnResults

SpecBatch == InitBatch /\ [][NextBatch]_vars

(***************************************************************************)
(* C30.  download_batch returns exactly one result record per requested    *)
(* ticker under every interleaving of the worker threads and whether each  *)
(* download succeeds, returns an error status or raises: no record is lost *)
(* or duplicated, and one ticker's failure never prevents the others from  *)
(* being reported.                                                         *)
(***************************************************************************)
\* the status a request is reported with
ReportedStatus(outcome) == IF outcome = "raises" THEN "error" ELSE outcome

RequestsWith(ticker, status) ==
    { i \in 1..Len(dl_in.tickers) :
        /\ dl_in.tickers[i] = ticker
        /\ ReportedStatus(dl_in.outcome[i]) = status }

ResultsWith(ticker, status) ==
    { i \in 1..Len(dl_out.results) :
        dl_out.results[i] = DownloadRecord(ticker, status) }

C30_OneRecordPerRequestedTicker ==
    /\ pc = "batch_done" =>
         /\ Len(dl_out.results) = Len(dl_in.tickers)
         /\ \A t \in BatchTickers, s \in DownloadOutcomes :
               Cardinality(ResultsWith(t, s))
                 = Cardinality(RequestsWith(t, s))
    /\ pc = "batch" => ENABLED NextBatch

\* a download that raised and one that succeeded, collected in the reverse
\* of the request order
C30_WitnessFailureAndSuccessOutOfOrder ==
    /\ pc = "batch_done"
    /\ dl_in.tickers = <<"NVDA", "AMD">>
    /\ dl_in.outcome = <<"raises", "success">>
    /\ dl_out.results = << DownloadRecord("AMD", "success"),
                           DownloadRecord("NVDA", "error") >>

\* the same ticker requested twice gets two records
C30_WitnessRepeatedTicker ==
    /\ pc = "batch_done"
    /\ dl_in.tickers = <<"NVDA", "NVDA">>
    /\ Len(dl_out.results) = 2

=============================================================================
